---- MODULE Spec2Model ----
(***************************************************************************)
(* Model of the Munin firmware (andli/munin): the IMU face pipeline of     *)
(* munin_app/src/imu.c (smoothing window, dominant-axis classifier, settle *)
(* state machine, session heartbeat), the BLE link state of                *)
(* munin_app/src/ble.c that decides how a face change is reported, and the *)
(* 6-byte wire protocol of munin_zephyr/src/munin_protocol.c.              *)
(*                                                                         *)
(* The other parts of main's loop have specifications of their own: the    *)
(* battery monitor of munin_app/src/battery.c (SpecBat), the face flash of *)
(* munin_app/src/led_effects.c and the LED configuration write of ble.c    *)
(* (SpecLed), the send path of ble.c taken one statement at a time against *)
(* the connection callbacks (SpecRace), and the IMU update of the older    *)
(* munin_zephyr/src/imu.c (SpecZ).                                         *)
(*                                                                         *)
(* Units: times are milliseconds of k_uptime_get(); accelerations are      *)
(* thousandths of the unit the code compares against IMU_MIN_AXIS_G, so    *)
(* 0.55f is 550 and 0.18f is 180.  Sample values are multiples of 60 so    *)
(* that the window mean (sum / hist_count, hist_count in 1..6) is exact.   *)
(***************************************************************************)
EXTENDS Integers, Sequences, FiniteSets, TLC

\* ------------------------------------------------------------ constants
IMU_SAMPLE_INTERVAL_MS == 180
IMU_SMOOTH_WINDOW == 6
IMU_MIN_AXIS_G == 550
IMU_AXIS_MARGIN_G == 180
FACE_SETTLE_TIME_MS == 1500
MS_PER_S == 1000
LOG_INTERVAL_S == 60
MUNIN_PACKET_SIZE == 6
TX_VALUE_SIZE == 8
MUNIN_EVENT_FACE_SWITCH == 1
MUNIN_EVENT_ONGOING_LOG == 2
MUNIN_EVENT_STATE_SYNC == 3
MUNIN_EVENT_BOOT == 16
MUNIN_EVENT_SHUTDOWN == 17
MUNIN_EVENT_LOW_BATTERY == 18
MUNIN_EVENT_CHARGING_START == 19
MUNIN_EVENT_CHARGING_FULL == 20
MUNIN_EVENT_CHARGING_STOP == 21
\* munin_app's names of the battery events (munin_app/src/munin_protocol.h).
MUNIN_EVENT_BATTERY_STATUS == 4
MUNIN_EVENT_CHARGING_STARTED == 19
MUNIN_EVENT_FULLY_CHARGED == 20
MUNIN_EVENT_CHARGING_STOPPED == 21
\* battery.c: thresholds, hysteresis and periods of munin_battery_update.
LOW_THRESH_MV == 3200
LOW_HYSTERESIS_MV == 80
FULL_THRESH_MV == 4170
BATTERY_UPDATE_MS == 10000
BATTERY_BROADCAST_MS == 300000
\* led_effects.c: the flash duration; ble.c: the length of an LED write and
\* the ATT error codes write_led returns, negated as BT_GATT_ERR does.
FLASH_TOTAL_MS == 2000
\* munin_zephyr/src/imu.c: its settle time, detection threshold (0.7, in
\* thousandths), sample interval and heartbeat period.
Z_FACE_SETTLE_TIME_MS == 2000
Z_FACE_DETECTION_THRESHOLD == 700
Z_IMU_SAMPLE_INTERVAL_MS == 100
Z_LOG_INTERVAL_S == 60
LED_WRITE_LEN == 4
ERR_INVALID_OFFSET == -7
ERR_INVALID_ATTRIBUTE_LEN == -13
ERR_VALUE_NOT_ALLOWED == -19
FALLBACK_FACE == 6
MAIN_SLEEP_MS == 500
UINT8 == 2 ^ 8
UINT16 == 2 ^ 16

\* --------------------------------------------------------------- bounds
\* Iterations of main's loop the settle specification runs.
MaxLoops == 6
\* Uptime (seconds) up to which the heartbeat specification runs the loop.
MaxHbSeconds == 186
\* Uptime (ms) at which munin_imu_init reads the clock.
BootMs == 120
\* Loop iterations of the fault specification.
MaxFaultLoops == 5
\* Loop iterations of the attribute-read specification.
MaxGattLoops == 5
\* Loop iterations of the turning specification: enough for two commits.
MaxTurnLoops == 11

\* --------------------------------------------------------------- inputs
\* Accelerometer samples <<x, y, z>>.
SampleI == <<1020, 780, 0>>
SampleX == <<2880, 0, 0>>
SampleY == <<0, 2400, 0>>
SampleA == <<1200, 600, 0>>
SampleO == <<0, 0, 0>>
SampleZ == <<0, 0, -960>>
Samples == {SampleX, SampleY, SampleA}
InitSamples == {SampleI, SampleO}
HbSamples == {SampleY, SampleZ}
\* Main-loop periods: k_sleep(500) plus the time the iteration itself takes.
Steps == {MAIN_SLEEP_MS}
\* Protocol inputs: event kinds, 16-bit halves of seconds, payloads.
Kinds == {0, MUNIN_EVENT_FACE_SWITCH, MUNIN_EVENT_ONGOING_LOG, MUNIN_EVENT_STATE_SYNC,
          MUNIN_EVENT_BOOT, MUNIN_EVENT_SHUTDOWN, MUNIN_EVENT_LOW_BATTERY,
          MUNIN_EVENT_CHARGING_START, MUNIN_EVENT_CHARGING_FULL,
          MUNIN_EVENT_CHARGING_STOP, 255}
Words == {0, 1, 258, 772, 65535}
Payloads == {0, 3, 6, 255}
\* Battery inputs: calibrated millivolts around the thresholds, and the
\* uptime between two calls of munin_battery_update.
BatVolts == {3200, 3201, 3280, 3281, 4170}
BatSteps == {5000, 10000, 290000}
MaxBatSeconds == 310
\* LED inputs: the faces a commit flashes, the uptime between two calls of
\* munin_led_effects_update, and the writes of a peer to the LED
\* characteristic (offset, bytes).
LedFaces == {1, 3}
LedSteps == {500, 700}
MaxLedMs == 4000
MaxLedWrites == 2
LedBufs == {<<1, 0, 0, 0>>, <<3, 9, 8, 7>>, <<0, 1, 2, 3>>, <<7, 1, 2, 3>>,
            <<3, 9, 8>>, <<3, 9, 8, 7, 6>>, <<>>}
\* munin_zephyr inputs: a device resting on face 5 that can be turned to
\* face 1 during the first MaxZTurnMs; munin_imu_update called every 50 or
\* 100 ms for MaxZSeconds.
ZSamples == {<<0, 0, 1000>>, <<1000, 0, 0>>}
ZSteps == {50, 100}
MaxZTurnMs == 600
MaxZSeconds == 61
\* Return codes of the sensor driver and of bt_gatt_notify: 0 or an errno.
DriverRcs == {0, -5}
NotifyRcs == {0, -12}

VARIABLES
    phase,              \* "boot" before munin_imu_init has run, "run" after
    clock,              \* k_uptime_get()
    accel,              \* the device: "null", "notready" or "ready"
    last,               \* munin_imu_update's static last
    s_face, s_candidate, s_candidate_since, s_session_start,
    last_logged,        \* munin_imu_update's static last_logged
    hist, hist_index, hist_count,
    ble_connected, s_conn, face_notif_enabled,
    out,                \* what the last handler handed to the BLE layer
    res,                \* how the last handler ended
    detected,           \* classification of the last processed tick (-1: none)
    lastp,              \* uptime of the last processed tick
    run_start,          \* first tick of the current run of equal classifications
    run_from,           \* accepted face when that run began
    run_sw,             \* FACE_SWITCH packets handed over during the run
    run_nf,             \* face notifications accepted during the run
    run_commits,        \* commits during the run
    progress,           \* now - s_candidate_since at the last non-ambiguous tick
    hb_session,         \* seconds of the ONGOING_LOGs of the current session
    poll_ok,            \* every processed tick of the session came <= 1 s after the last
    alt_len,            \* length of the current run of ticks each classified
                        \* non-ambiguous and unlike the tick before
    delta_seen,         \* delta_s of the last processed tick
    hb_dup,             \* an ONGOING_LOG repeated a seconds value of its session
    p_kind, p_seconds, p_payload,   \* the inputs of the last create_packet
    packet,             \* the munin_packet_t it filled
    wire,               \* what the last send_packet handed to munin_ble_send_data
    sent_initial_face,  \* munin_ble_update's static sent_initial_face
    ble_out,            \* what munin_ble_update notified in the last loop iteration
    init_rc,            \* what the three init calls of main returned
    recent,             \* the last min(k, N) of the k samples pushed, oldest first
    boot_sent,          \* BOOT packets handed to the BLE layer so far
    sync_sent,          \* STATE_SYNC packets handed over since the last connect
    cx, cy, cz, cface,  \* face_from_avg's last arguments and its result
    gatt_face,          \* the byte the last read_face returned to the peer (-1: none)
    tx_value,           \* ble.c's static tx_value, the buffer read_tx returns
    s_mv, s_pct, s_chg, \* battery.c's statics
    last_update, last_broadcast, low_sent, full_sent,
                        \* the statics of munin_battery_update
    bat_out,            \* what the last munin_battery_update handed to the BLE layer
    bat_res,            \* "reset", "init", "gated" or "updated": the last battery call
    chg_pin,            \* what read_charging_status returned in that call
    low_count,          \* LOW_BATTERY events sent so far, counted up to 2
    seen_above,         \* an update since the last LOW_BATTERY saw s_mv above the
                        \* hysteresis level
    episode_full,       \* FULLY_CHARGED was sent since charging last started
    s_flash,            \* led_effects.c's s_flash: active, start_ms, face, total_ms
    s_led_target,       \* led_effects.c's s_led_target
    sk6812_init_ok,     \* sk6812.c's sk6812_init_ok
    led_sk, led_gpio,   \* the colour on the SK6812 and the three onboard LED pins
    led_res,            \* "reset", "init", "flash", "idle", "on", "off" or "end":
                        \* the last call into led_effects.c
    s_face_colors,      \* led_config.c's s_face_colors, face -> <<r, g, b>>
    wr, wr_n,           \* the last write to the LED characteristic with its
                        \* result, and how many there were
    enable_served,      \* "none", "pending" or "served": whether the connected
                        \* client has enabled face notifications, and whether
                        \* munin_ble_update has notified it the current face since
    snd_pc,             \* "idle", or "checked": main is inside munin_ble_send_data
                        \* or munin_ble_notify_face, past the guard and before
                        \* bt_gatt_notify
    snd_fn,             \* which of the two: "tx" or "face" ("none" when idle)
    snd_reg,            \* the s_conn the guard loaded: "none", "live", or
                        \* "released" once disconnected has dropped its reference
    notify_conn,        \* the connection the last bt_gatt_notify was given:
                        \* "none", "live", "released" or "null"
    current_face, candidate_face, last_settled_face, face_change_time,
    last_imu_sample, session_start_time,
                        \* the statics of munin_zephyr/src/imu.c
    z_sample,           \* the last reading its munin_imu_update classified
    z_out, z_res,       \* what its last call handed to the protocol layer, and
                        \* how the call ended
    z_log_s, z_log_n    \* the seconds of the session's last ONGOING_LOG and how
                        \* many ONGOING_LOGs of the session carried them (up to 3)

imu_vars == <<accel, last, s_face, s_candidate, s_candidate_since,
              s_session_start, last_logged, hist, hist_index, hist_count>>
ble_vars == <<ble_connected, s_conn, face_notif_enabled>>
obs_vars == <<detected, lastp, run_start, run_from, run_sw, run_nf,
              run_commits, progress, hb_session, poll_ok, alt_len, delta_seen, hb_dup>>
proto_vars == <<p_kind, p_seconds, p_payload, packet, wire>>
loop_vars == <<sent_initial_face, ble_out, init_rc>>
sent_vars == <<recent, boot_sent, sync_sent>>
cls_vars == <<cx, cy, cz, cface>>
gatt_vars == <<gatt_face, tx_value>>
bat_vars == <<s_mv, s_pct, s_chg, last_update, last_broadcast, low_sent, full_sent,
              bat_out, bat_res, chg_pin, low_count, seen_above, episode_full>>
led_vars == <<s_flash, s_led_target, sk6812_init_ok, led_sk, led_gpio, led_res>>
cfg_vars == <<s_face_colors, wr, wr_n>>
link_vars == <<enable_served, snd_pc, snd_fn, snd_reg, notify_conn>>
z_vars == <<current_face, candidate_face, last_settled_face, face_change_time,
            last_imu_sample, session_start_time, z_sample, z_out, z_res,
            z_log_s, z_log_n>>
periph_vars == <<bat_vars, led_vars, cfg_vars, link_vars, z_vars>>
vars == <<phase, clock, imu_vars, ble_vars, out, res, obs_vars, proto_vars,
          loop_vars, sent_vars, cls_vars, gatt_vars, periph_vars>>

\* ------------------------------------------------------------- protocol
\* A uint32_t as its two 16-bit halves (TLC's integers stop at 2^31 - 1).
U32(hi, lo) == [hi |-> hi % UINT16, lo |-> lo % UINT16]
\* The uint32_t of an integer 0 <= n < 2^31.
ToU32(n) == U32(n \div UINT16, n % UINT16)

\* munin_protocol_create_packet: the packed struct, fields as their C types
\* (delta_s a uint32_t, given as U32).
munin_protocol_create_packet(event_type, delta_s, face_id) ==
    [event_type |-> event_type % UINT8,
     delta_s    |-> delta_s,
     face_id    |-> face_id % UINT8]

\* A variant of wire_packet that drops the top byte of delta_s: byte 4
\* repeats (delta_s >> 16) & 0xFF.
wire_packet_TopByteLost(p) ==
    <<p.event_type,
      p.delta_s.lo % UINT8,
      (p.delta_s.lo \div UINT8) % UINT8,
      p.delta_s.hi % UINT8,
      p.delta_s.hi % UINT8,
      p.face_id>>

\* A variant of wire_packet with the seconds most significant byte first.
wire_packet_BigEndian(p) ==
    <<p.event_type,
      (p.delta_s.hi \div UINT8) % UINT8,
      p.delta_s.hi % UINT8,
      (p.delta_s.lo \div UINT8) % UINT8,
      p.delta_s.lo % UINT8,
      p.face_id>>

\* munin_protocol_send_packet: the wire_packet array it fills;
\* delta_s & 0xFF, (delta_s >> 8) & 0xFF, (delta_s >> 16) & 0xFF, (delta_s >> 24) & 0xFF.
wire_packet(p) ==
    <<p.event_type,
      p.delta_s.lo % UINT8,
      (p.delta_s.lo \div UINT8) % UINT8,
      p.delta_s.hi % UINT8,
      (p.delta_s.hi \div UINT8) % UINT8,
      p.face_id>>

\* The decoder of the wire record (the firmware only encodes; the decoder is
\* the receiving side's): kind, seconds little-endian, payload; a record of
\* another length is rejected.
decode(b) ==
    IF Len(b) # MUNIN_PACKET_SIZE THEN [ok |-> FALSE, kind |-> 0, seconds |-> U32(0, 0), payload |-> 0]
    ELSE [ok |-> TRUE, kind |-> b[1],
          seconds |-> U32(b[4] + UINT8 * b[5], b[2] + UINT8 * b[3]),
          payload |-> b[6]]

Min(a, b) == IF a < b THEN a ELSE b

\* A variant of munin_ble_send_data without the test of the link: the bytes
\* always go to bt_gatt_notify.
munin_ble_send_data_NoLinkTest(data, connected, conn, rc) ==
    IF Len(data) = 0
        THEN [ch |-> "tx", bytes |-> data, rc |-> -1]
        ELSE [ch |-> "tx", bytes |-> SubSeq(data, 1, Min(Len(data), TX_VALUE_SIZE)), rc |-> rc]

\* munin_ble_send_data: -1 without a connection, else bt_gatt_notify's result
\* for the first min(length, sizeof tx_value) bytes.
munin_ble_send_data(data, connected, conn, rc) ==
    IF ~connected \/ conn = "null" \/ Len(data) = 0
        THEN [ch |-> "tx", bytes |-> data, rc |-> -1]
        ELSE [ch |-> "tx", bytes |-> SubSeq(data, 1, Min(Len(data), TX_VALUE_SIZE)), rc |-> rc]

munin_protocol_send_packet(p, connected, conn, rc) ==
    munin_ble_send_data(wire_packet(p), connected, conn, rc)

\* The memcpy of munin_ble_send_data (ble.c 240-241): the first
\* min(length, sizeof tx_value) bytes of tx_value are overwritten.
tx_write(tx, data) ==
    [i \in 1..TX_VALUE_SIZE |-> IF i <= Len(data) THEN data[i] ELSE tx[i]]

\* tx_value after a handler that handed the entries of o to the BLE layer
\* while the link was as given: munin_ble_send_data returns before the
\* memcpy unless a client is connected (ble.c 239).
RECURSIVE TxStore(_, _, _, _)
TxStore(tx, o, connected, conn) ==
    IF o = <<>> THEN tx
    ELSE IF Head(o).ch = "tx" /\ connected /\ conn # "null" /\ Len(Head(o).bytes) > 0
         THEN TxStore(tx_write(tx, Head(o).bytes), Tail(o), connected, conn)
    ELSE TxStore(tx, Tail(o), connected, conn)

\* munin_ble_notify_face: -1 unless connected and subscribed.
munin_ble_notify_face(face_id, connected, conn, enabled, rc) ==
    IF ~connected \/ conn = "null" \/ ~enabled
        THEN [ch |-> "face", bytes |-> <<face_id>>, rc |-> -1]
        ELSE [ch |-> "face", bytes |-> <<face_id>>, rc |-> rc]

\* ------------------------------------------------------------ smoothing
\* imu_add_sample: C index i is position i + 1 of the sequence.
\* A variant of imu_add_sample that does not advance hist_index.
imu_add_sample_NoAdvance(h, idx, cnt, s) ==
    [hist  |-> [h EXCEPT ![idx + 1] = s],
     index |-> idx,
     count |-> IF cnt < IMU_SMOOTH_WINDOW THEN cnt + 1 ELSE cnt]

imu_add_sample(h, idx, cnt, s) ==
    [hist  |-> [h EXCEPT ![idx + 1] = s],
     index |-> (idx + 1) % IMU_SMOOTH_WINDOW,
     count |-> IF cnt < IMU_SMOOTH_WINDOW THEN cnt + 1 ELSE cnt]

RECURSIVE SumAxis(_, _, _)
SumAxis(h, n, axis) == IF n = 0 THEN 0 ELSE h[n][axis] + SumAxis(h, n - 1, axis)

\* A variant of imu_get_average that divides by the window size.
imu_get_average_FullWindow(h, cnt) ==
    IF cnt = 0 THEN <<0, 0, 0>>
    ELSE <<SumAxis(h, cnt, 1) \div IMU_SMOOTH_WINDOW,
           SumAxis(h, cnt, 2) \div IMU_SMOOTH_WINDOW,
           SumAxis(h, cnt, 3) \div IMU_SMOOTH_WINDOW>>

\* imu_get_average: mean of the first hist_count slots, zero when empty.
imu_get_average(h, cnt) ==
    IF cnt = 0 THEN <<0, 0, 0>>
    ELSE <<SumAxis(h, cnt, 1) \div cnt, SumAxis(h, cnt, 2) \div cnt, SumAxis(h, cnt, 3) \div cnt>>

Abs(v) == IF v < 0 THEN -v ELSE v

\* A variant of face_from_avg with memory: where the original finds no
\* dominant axis it answers the accepted face.
face_from_avg_Sticky(x, y, z) ==
    LET ax == Abs(x)
        ay == Abs(y)
        az == Abs(z)
        a1 == IF ay > ax THEN [max1 |-> ay, max2 |-> ax, idx |-> 1]
              ELSE [max1 |-> ax, max2 |-> ay, idx |-> 0]
        a2 == IF az > a1.max1 THEN [max1 |-> az, max2 |-> a1.max1, idx |-> 2]
              ELSE IF az > a1.max2 THEN [a1 EXCEPT !.max2 = az]
              ELSE a1
    IN  IF a2.max1 < IMU_MIN_AXIS_G THEN s_face
        ELSE IF (a2.max1 - a2.max2) < IMU_AXIS_MARGIN_G THEN s_face
        ELSE IF a2.idx = 0 THEN (IF x > 0 THEN 1 ELSE 2)
        ELSE IF a2.idx = 1 THEN (IF y > 0 THEN 3 ELSE 4)
        ELSE (IF z > 0 THEN 5 ELSE 6)

\* A variant of face_from_avg that forgets to raise max2 when the Z
\* magnitude lies between the two others' (no else-if on the second test).
face_from_avg_StaleSecond(x, y, z) ==
    LET ax == Abs(x)
        ay == Abs(y)
        az == Abs(z)
        a1 == IF ay > ax THEN [max1 |-> ay, max2 |-> ax, idx |-> 1]
              ELSE [max1 |-> ax, max2 |-> ay, idx |-> 0]
        a2 == IF az > a1.max1 THEN [max1 |-> az, max2 |-> a1.max1, idx |-> 2]
              ELSE a1
    IN  IF a2.max1 < IMU_MIN_AXIS_G THEN 0
        ELSE IF (a2.max1 - a2.max2) < IMU_AXIS_MARGIN_G THEN 0
        ELSE IF a2.idx = 0 THEN (IF x > 0 THEN 1 ELSE 2)
        ELSE IF a2.idx = 1 THEN (IF y > 0 THEN 3 ELSE 4)
        ELSE (IF z > 0 THEN 5 ELSE 6)

\* face_from_avg: dominant axis and sign, 0 when weak or too close.
face_from_avg(x, y, z) ==
    LET ax == Abs(x)
        ay == Abs(y)
        az == Abs(z)
        a1 == IF ay > ax THEN [max1 |-> ay, max2 |-> ax, idx |-> 1]
              ELSE [max1 |-> ax, max2 |-> ay, idx |-> 0]
        a2 == IF az > a1.max1 THEN [max1 |-> az, max2 |-> a1.max1, idx |-> 2]
              ELSE IF az > a1.max2 THEN [a1 EXCEPT !.max2 = az]
              ELSE a1
    IN  IF a2.max1 < IMU_MIN_AXIS_G THEN 0
        ELSE IF (a2.max1 - a2.max2) < IMU_AXIS_MARGIN_G THEN 0
        ELSE IF a2.idx = 0 THEN (IF x > 0 THEN 1 ELSE 2)
        ELSE IF a2.idx = 1 THEN (IF y > 0 THEN 3 ELSE 4)
        ELSE (IF z > 0 THEN 5 ELSE 6)

\* --------------------------------------------------------------- settle
\* A variant of Settle without the test detected != s_face: a settled
\* candidate is committed on every tick that still detects it.
Settle_NoAcceptedTest(det, now, face, cand, since, sess) ==
    IF det # 0 THEN
        IF det # cand THEN
            [face |-> face, cand |-> det, since |-> now, sess |-> sess, commit |-> FALSE]
        ELSE IF (now - since) >= FACE_SETTLE_TIME_MS THEN
            [face |-> cand, cand |-> cand, since |-> since, sess |-> now, commit |-> TRUE]
        ELSE
            [face |-> face, cand |-> cand, since |-> since, sess |-> sess, commit |-> FALSE]
    ELSE
        [face |-> face, cand |-> cand, since |-> since, sess |-> sess, commit |-> FALSE]

\* A variant of Settle whose timer keeps running when the candidate flips
\* or the accepted face is detected again.
Settle_KeepSince(det, now, face, cand, since, sess) ==
    IF det # 0 THEN
        IF det # face THEN
            IF det # cand THEN
                [face |-> face, cand |-> det, since |-> since, sess |-> sess, commit |-> FALSE]
            ELSE IF (now - since) >= FACE_SETTLE_TIME_MS THEN
                [face |-> cand, cand |-> cand, since |-> since, sess |-> now, commit |-> TRUE]
            ELSE
                [face |-> face, cand |-> cand, since |-> since, sess |-> sess, commit |-> FALSE]
        ELSE
            [face |-> face, cand |-> face, since |-> since, sess |-> sess, commit |-> FALSE]
    ELSE
        [face |-> face, cand |-> cand, since |-> since, sess |-> sess, commit |-> FALSE]

\* A variant of Settle in which an ambiguous tick drops the candidate.
Settle_AmbiguousResets(det, now, face, cand, since, sess) ==
    IF det # 0 THEN
        IF det # face THEN
            IF det # cand THEN
                [face |-> face, cand |-> det, since |-> now, sess |-> sess, commit |-> FALSE]
            ELSE IF (now - since) >= FACE_SETTLE_TIME_MS THEN
                [face |-> cand, cand |-> cand, since |-> since, sess |-> now, commit |-> TRUE]
            ELSE
                [face |-> face, cand |-> cand, since |-> since, sess |-> sess, commit |-> FALSE]
        ELSE
            [face |-> face, cand |-> face, since |-> now, sess |-> sess, commit |-> FALSE]
    ELSE
        [face |-> face, cand |-> face, since |-> now, sess |-> sess, commit |-> FALSE]

\* A variant of Settle without the test detected != 0: an ambiguous
\* classification becomes a candidate like any other.
Settle_NoAmbiguousGuard(det, now, face, cand, since, sess) ==
    IF det # face THEN
        IF det # cand THEN
            [face |-> face, cand |-> det, since |-> now, sess |-> sess, commit |-> FALSE]
        ELSE IF (now - since) >= FACE_SETTLE_TIME_MS THEN
            [face |-> cand, cand |-> cand, since |-> since, sess |-> now, commit |-> TRUE]
        ELSE
            [face |-> face, cand |-> cand, since |-> since, sess |-> sess, commit |-> FALSE]
    ELSE
        [face |-> face, cand |-> face, since |-> now, sess |-> sess, commit |-> FALSE]

\* A variant of Settle without the else branch of detected != s_face: a
\* tick that detects the accepted face leaves the candidate pending.
Settle_StableKeepsCandidate(det, now, face, cand, since, sess) ==
    IF det # 0 /\ det # face THEN
        IF det # cand THEN
            [face |-> face, cand |-> det, since |-> now, sess |-> sess, commit |-> FALSE]
        ELSE IF (now - since) >= FACE_SETTLE_TIME_MS THEN
            [face |-> cand, cand |-> cand, since |-> since, sess |-> now, commit |-> TRUE]
        ELSE
            [face |-> face, cand |-> cand, since |-> since, sess |-> sess, commit |-> FALSE]
    ELSE
        [face |-> face, cand |-> cand, since |-> since, sess |-> sess, commit |-> FALSE]

\* A variant of Settle that commits only once the candidate has lasted
\* longer than the settle time.
Settle_StrictlyLonger(det, now, face, cand, since, sess) ==
    IF det # 0 THEN
        IF det # face THEN
            IF det # cand THEN
                [face |-> face, cand |-> det, since |-> now, sess |-> sess, commit |-> FALSE]
            ELSE IF (now - since) > FACE_SETTLE_TIME_MS THEN
                [face |-> cand, cand |-> cand, since |-> since, sess |-> now, commit |-> TRUE]
            ELSE
                [face |-> face, cand |-> cand, since |-> since, sess |-> sess, commit |-> FALSE]
        ELSE
            [face |-> face, cand |-> face, since |-> now, sess |-> sess, commit |-> FALSE]
    ELSE
        [face |-> face, cand |-> cand, since |-> since, sess |-> sess, commit |-> FALSE]

\* A variant of Settle without the settle-time test: a candidate is
\* committed on the first tick that classifies it again.
Settle_NoSettleTime(det, now, face, cand, since, sess) ==
    IF det # 0 THEN
        IF det # face THEN
            IF det # cand THEN
                [face |-> face, cand |-> det, since |-> now, sess |-> sess, commit |-> FALSE]
            ELSE
                [face |-> cand, cand |-> cand, since |-> since, sess |-> now, commit |-> TRUE]
        ELSE
            [face |-> face, cand |-> face, since |-> now, sess |-> sess, commit |-> FALSE]
    ELSE
        [face |-> face, cand |-> cand, since |-> since, sess |-> sess, commit |-> FALSE]

\* The settle block of munin_imu_update (imu.c 195-241) on the four fields.
\* commit tells whether this tick accepted the candidate.
Settle(det, now, face, cand, since, sess) ==
    IF det # 0 THEN
        IF det # face THEN
            IF det # cand THEN
                [face |-> face, cand |-> det, since |-> now, sess |-> sess, commit |-> FALSE]
            ELSE IF (now - since) >= FACE_SETTLE_TIME_MS THEN
                [face |-> cand, cand |-> cand, since |-> since, sess |-> now, commit |-> TRUE]
            ELSE
                [face |-> face, cand |-> cand, since |-> since, sess |-> sess, commit |-> FALSE]
        ELSE
            [face |-> face, cand |-> face, since |-> now, sess |-> sess, commit |-> FALSE]
    ELSE
        [face |-> face, cand |-> cand, since |-> since, sess |-> sess, commit |-> FALSE]

\* A variant of FaceReport that sends the FACE_SWITCH packet whatever the
\* notification returned.
FaceReport_Both(face, connected, conn, enabled, nrc, src) ==
    LET n == munin_ble_notify_face(face, connected, conn, enabled, nrc)
    IN  <<n, munin_protocol_send_packet(
                 munin_protocol_create_packet(MUNIN_EVENT_FACE_SWITCH, ToU32(0), face),
                 connected, conn, src)>>

\* What a commit hands to the BLE layer (imu.c 225-231): the face
\* notification, and the FACE_SWITCH packet only when that returned < 0.
FaceReport(face, connected, conn, enabled, nrc, src) ==
    LET n == munin_ble_notify_face(face, connected, conn, enabled, nrc)
    IN  IF n.rc < 0
        THEN <<n, munin_protocol_send_packet(
                     munin_protocol_create_packet(MUNIN_EVENT_FACE_SWITCH, ToU32(0), face),
                     connected, conn, src)>>
        ELSE <<n>>

\* A variant of SessionDelta with the operands of the subtraction swapped.
SessionDelta_Swapped(now, sess) == (sess - now) \div MS_PER_S

\* delta_s of the heartbeat block: (uint32_t)((now - s_session_start) / 1000),
\* the cast being the identity on the uptimes the model reaches.
SessionDelta(now, sess) == (now - sess) \div MS_PER_S

\* A variant of Heartbeat without the last_logged test.
Heartbeat_NoMarker(now, sess, logged) ==
    LET delta_s == SessionDelta(now, sess)
    IN  IF delta_s # 0 /\ (delta_s % LOG_INTERVAL_S) = 0
        THEN [emit |-> TRUE, delta_s |-> delta_s, logged |-> delta_s]
        ELSE [emit |-> FALSE, delta_s |-> delta_s, logged |-> logged]

\* The heartbeat block (imu.c 243-252).
Heartbeat(now, sess, logged) ==
    LET delta_s == SessionDelta(now, sess)
    IN  IF delta_s # 0 /\ (delta_s % LOG_INTERVAL_S) = 0 /\ delta_s # logged
        THEN [emit |-> TRUE, delta_s |-> delta_s, logged |-> delta_s]
        ELSE [emit |-> FALSE, delta_s |-> delta_s, logged |-> logged]

\* munin_imu_get_session_delta_s at uptime now.
munin_imu_get_session_delta_s(now) ==
    IF now < s_session_start THEN 0 ELSE (now - s_session_start) \div MS_PER_S

\* A variant of munin_imu_get_current_face that returns the candidate.
munin_imu_get_current_face_Candidate == s_candidate

\* munin_imu_get_current_face (imu.c 255-258).
munin_imu_get_current_face == s_face

\* ----------------------------------------------------------------- init
ZeroHist == [i \in 1..IMU_SMOOTH_WINDOW |-> <<0, 0, 0>>]

ImuVarsInit ==
    /\ accel = "null" /\ last = 0
    /\ s_face = 0 /\ s_candidate = 0 /\ s_candidate_since = 0 /\ s_session_start = 0
    /\ last_logged = 0
    /\ hist = ZeroHist /\ hist_index = 0 /\ hist_count = 0

BleVarsInit == ble_connected = FALSE /\ s_conn = "null" /\ face_notif_enabled = FALSE

ObsVarsInit ==
    /\ detected = -1 /\ lastp = 0 /\ run_start = 0 /\ run_from = 0
    /\ run_sw = 0 /\ run_nf = 0 /\ run_commits = 0 /\ progress = 0
    /\ hb_session = {} /\ poll_ok = TRUE
    /\ alt_len = 0 /\ delta_seen = 0 /\ hb_dup = FALSE

NoPacket == [event_type |-> 0, delta_s |-> U32(0, 0), face_id |-> 0]

NoSend == [ch |-> "none", bytes |-> <<>>, rc |-> 0]

ProtoVarsInit ==
    /\ p_kind = 0 /\ p_seconds = U32(0, 0) /\ p_payload = 0
    /\ packet = NoPacket /\ wire = NoSend

NoInitRc == [battery |-> 0, imu |-> 0, ble |-> 0]

LoopVarsInit == sent_initial_face = FALSE /\ ble_out = <<>> /\ init_rc = NoInitRc

SentVarsInit == recent = <<>> /\ boot_sent = 0 /\ sync_sent = 0

ClsVarsInit == cx = 0 /\ cy = 0 /\ cz = 0 /\ cface = 0
ZeroTx == [i \in 1..TX_VALUE_SIZE |-> 0]
GattVarsInit == gatt_face = -1 /\ tx_value = ZeroTx

\* battery.c 38-40 and the zeroed statics of munin_battery_update.
BatVarsInit ==
    /\ s_mv = 4000 /\ s_pct = 100 /\ s_chg = FALSE
    /\ last_update = 0 /\ last_broadcast = 0
    /\ low_sent = FALSE /\ full_sent = FALSE
    /\ bat_out = <<>> /\ bat_res = "reset" /\ chg_pin = FALSE
    /\ low_count = 0 /\ seen_above = FALSE /\ episode_full = FALSE

\* led_effects.c 19 and 54-59, sk6812.c 15; the LED is dark at reset.
Dark == <<0, 0, 0>>

LedVarsInit ==
    /\ s_flash = [active |-> 0, start_ms |-> 0, face |-> 0, total_ms |-> 0]
    /\ s_led_target = "SK6812" /\ sk6812_init_ok = FALSE
    /\ led_sk = Dark /\ led_gpio = Dark /\ led_res = "reset"

\* led_config.c 8-15.
DefaultColors ==
    [f \in 1..6 |-> CASE f = 1 -> <<255, 0, 0>>  [] f = 2 -> <<0, 255, 0>>
                      [] f = 3 -> <<0, 0, 255>>  [] f = 4 -> <<255, 255, 0>>
                      [] f = 5 -> <<255, 0, 255>> [] OTHER -> <<128, 128, 128>>]

CfgVarsInit ==
    /\ s_face_colors = DefaultColors
    /\ wr = [offset |-> 0, buf |-> <<>>, rc |-> 0] /\ wr_n = 0

LinkVarsInit ==
    /\ enable_served = "none"
    /\ snd_pc = "idle" /\ snd_fn = "none" /\ snd_reg = "none" /\ notify_conn = "none"

\* munin_zephyr/src/imu.c 18-24.
ZVarsInit ==
    /\ current_face = 0 /\ candidate_face = 0 /\ last_settled_face = 0
    /\ face_change_time = 0 /\ last_imu_sample = 0 /\ session_start_time = 0
    /\ z_sample = <<0, 0, 0>> /\ z_out = <<>> /\ z_res = "reset"
    /\ z_log_s = 0 /\ z_log_n = 0

\* The statics as the C runtime zeroes them, before main runs.
Init ==
    /\ phase = "boot" /\ clock = 0
    /\ ImuVarsInit /\ BleVarsInit /\ ObsVarsInit /\ ProtoVarsInit
    /\ LoopVarsInit /\ SentVarsInit /\ ClsVarsInit /\ GattVarsInit
    /\ BatVarsInit /\ LedVarsInit /\ CfgVarsInit /\ LinkVarsInit /\ ZVarsInit
    /\ out = <<>> /\ res = "reset"

\* What a handler handed to the BLE layer, by kind.
IsPacket(e, kind) == e.ch = "tx" /\ Len(e.bytes) >= 1 /\ e.bytes[1] = kind
IsFaceNotified(e) == e.ch = "face" /\ e.rc >= 0
CountIn(o, P(_)) == Cardinality({i \in 1..Len(o) : P(o[i])})
IsFaceSwitch(e) == IsPacket(e, MUNIN_EVENT_FACE_SWITCH)
IsOngoingLog(e) == IsPacket(e, MUNIN_EVENT_ONGOING_LOG)
IsBoot(e) == IsPacket(e, MUNIN_EVENT_BOOT)
IsStateSync(e) == IsPacket(e, MUNIN_EVENT_STATE_SYNC)

\* A variant of the seeding loop that stops one push short.
RECURSIVE AddTimes_OneShort(_, _, _)
AddTimes_OneShort(w, s, n) ==
    IF n <= 1 THEN w
    ELSE AddTimes_OneShort(imu_add_sample(w.hist, w.index, w.count, s), s, n - 1)

\* The seeding loop of munin_imu_init (imu.c 131): n pushes of the sample s.
RECURSIVE AddTimes(_, _, _)
AddTimes(w, s, n) ==
    IF n = 0 THEN w
    ELSE AddTimes(imu_add_sample(w.hist, w.index, w.count, s), s, n - 1)

\* A variant of BootReport that reports the face as a FACE_SWITCH packet.
BootReport_AsFaceSwitch(face, connected, conn) ==
    <<munin_protocol_send_packet(
          munin_protocol_create_packet(MUNIN_EVENT_FACE_SWITCH, ToU32(0), face),
          connected, conn, 0)>>

\* The end of munin_imu_init (imu.c 144-146): one BOOT packet with seconds 0
\* and the initial face, handed to munin_protocol_send_packet.
BootReport(face, connected, conn) ==
    <<munin_protocol_send_packet(
          munin_protocol_create_packet(MUNIN_EVENT_BOOT, ToU32(0), face),
          connected, conn, 0)>>

\* munin_imu_init: dev is what the devicetree lookup and device_is_ready
\* gave, s the sample of the retry loop (any value when no fetch succeeded:
\* v is then read uninitialised), fetched whether a fetch succeeded.
munin_imu_init(dev, fetched, s) ==
    /\ phase = "boot"
    /\ phase' = "run"
    /\ clock' = clock + BootMs
    /\ accel' = dev
    /\ UNCHANGED <<last, last_logged, ble_vars, proto_vars>>
    /\ UNCHANGED <<sent_initial_face, ble_out, sync_sent, cls_vars, periph_vars, gatt_face>>
    /\ IF dev # "ready"
       THEN /\ UNCHANGED <<s_face, s_candidate, s_candidate_since, s_session_start,
                           hist, hist_index, hist_count, obs_vars, recent, boot_sent>>
            /\ out' = <<>> /\ UNCHANGED tx_value
            /\ res' = "init_nodev"
       ELSE LET w   == AddTimes([hist |-> hist, index |-> hist_index, count |-> hist_count],
                                s, IMU_SMOOTH_WINDOW)
                avg == imu_get_average(w.hist, w.count)
                f0  == face_from_avg(avg[1], avg[2], avg[3])
                f   == IF f0 = 0 THEN FALLBACK_FACE ELSE f0
                now == clock'
            IN  /\ hist' = w.hist /\ hist_index' = w.index /\ hist_count' = w.count
                /\ s_face' = f /\ s_candidate' = f
                /\ s_candidate_since' = now /\ s_session_start' = now
                /\ out' = BootReport(f, ble_connected, s_conn)
                /\ tx_value' = TxStore(tx_value, BootReport(f, ble_connected, s_conn),
                                       ble_connected, s_conn)
                /\ res' = IF fetched /\ s # <<0, 0, 0>> THEN "init_ok" ELSE "init_zero"
                /\ recent' = [i \in 1..IMU_SMOOTH_WINDOW |-> s]
                /\ boot_sent' = boot_sent + CountIn(out', IsBoot)
                /\ lastp' = now /\ run_start' = now /\ run_from' = f
                /\ UNCHANGED <<detected, run_sw, run_nf, run_commits, progress,
                               hb_session, poll_ok, alt_len, delta_seen, hb_dup>>

\* --------------------------------------------------------------- update
\* The result of a munin_imu_update that returned early: nothing changed.
ImuSame ==
    [res |-> "", last |-> last, w |-> [hist |-> hist, index |-> hist_index, count |-> hist_count],
     st |-> [face |-> s_face, cand |-> s_candidate, since |-> s_candidate_since,
             sess |-> s_session_start, commit |-> FALSE],
     logged |-> last_logged, det |-> -1, hb |-> FALSE, delta_s |-> 0, out |-> <<>>]

\* A variant of ImuProcess that classifies the window as it was before the
\* push of this tick.
ImuProcess_ClassifyBeforePush(now, s, nrc, src) ==
    LET w   == imu_add_sample(hist, hist_index, hist_count, s)
        avg == imu_get_average(hist, hist_count)
        det == face_from_avg(avg[1], avg[2], avg[3])
        st  == Settle(det, now, s_face, s_candidate, s_candidate_since, s_session_start)
        rep == IF st.commit
               THEN FaceReport(st.face, ble_connected, s_conn, face_notif_enabled, nrc, src)
               ELSE <<>>
        hb  == Heartbeat(now, st.sess, last_logged)
        log == IF hb.emit
               THEN <<munin_protocol_send_packet(
                        munin_protocol_create_packet(MUNIN_EVENT_ONGOING_LOG, ToU32(hb.delta_s), st.face),
                        ble_connected, s_conn, src)>>
               ELSE <<>>
    IN  [res |-> "processed", last |-> now, w |-> w, st |-> st,
         logged |-> hb.logged, det |-> det, hb |-> hb.emit, delta_s |-> hb.delta_s,
         out |-> rep \o log]

\* A variant of ImuProcess that takes a commit back when nothing of its
\* report was accepted by the BLE layer, so that a later tick reports again.
ImuProcess_RollbackOnFailedSend(now, s, nrc, src) ==
    LET w   == imu_add_sample(hist, hist_index, hist_count, s)
        avg == imu_get_average(w.hist, w.count)
        det == face_from_avg(avg[1], avg[2], avg[3])
        st0 == Settle(det, now, s_face, s_candidate, s_candidate_since, s_session_start)
        rep == IF st0.commit
               THEN FaceReport(st0.face, ble_connected, s_conn, face_notif_enabled, nrc, src)
               ELSE <<>>
        st  == IF st0.commit /\ \A i \in 1..Len(rep) : rep[i].rc < 0
               THEN [face |-> s_face, cand |-> s_candidate, since |-> s_candidate_since,
                     sess |-> s_session_start, commit |-> FALSE]
               ELSE st0
        hb  == Heartbeat(now, st.sess, last_logged)
        log == IF hb.emit
               THEN <<munin_protocol_send_packet(
                        munin_protocol_create_packet(MUNIN_EVENT_ONGOING_LOG, ToU32(hb.delta_s), st.face),
                        ble_connected, s_conn, src)>>
               ELSE <<>>
    IN  [res |-> "processed", last |-> now, w |-> w, st |-> st,
         logged |-> hb.logged, det |-> det, hb |-> hb.emit, delta_s |-> hb.delta_s,
         out |-> rep \o log]

\* The tick once the driver has returned a sample (imu.c 177-252): push,
\* average, classify, settle, report, heartbeat.
ImuProcess(now, s, nrc, src) ==
    LET w   == imu_add_sample(hist, hist_index, hist_count, s)
        avg == imu_get_average(w.hist, w.count)
        det == face_from_avg(avg[1], avg[2], avg[3])
        st  == Settle(det, now, s_face, s_candidate, s_candidate_since, s_session_start)
        rep == IF st.commit
               THEN FaceReport(st.face, ble_connected, s_conn, face_notif_enabled, nrc, src)
               ELSE <<>>
        hb  == Heartbeat(now, st.sess, last_logged)
        log == IF hb.emit
               THEN <<munin_protocol_send_packet(
                        munin_protocol_create_packet(MUNIN_EVENT_ONGOING_LOG, ToU32(hb.delta_s), st.face),
                        ble_connected, s_conn, src)>>
               ELSE <<>>
    IN  [res |-> "processed", last |-> now, w |-> w, st |-> st,
         logged |-> hb.logged, det |-> det, hb |-> hb.emit, delta_s |-> hb.delta_s,
         out |-> rep \o log]

ImuUpdate_NoDeviceTest(now, s, frc, grc, nrc, src) ==
    IF now - last < IMU_SAMPLE_INTERVAL_MS THEN [ImuSame EXCEPT !.res = "gated"]
    ELSE IF frc # 0 THEN [ImuSame EXCEPT !.res = "fetch_err", !.last = now]
    ELSE IF grc # 0 THEN [ImuSame EXCEPT !.res = "get_err", !.last = now]
    ELSE ImuProcess(now, s, nrc, src)

ImuUpdate_PushOnError(now, s, frc, grc, nrc, src) ==
    IF accel = "null" THEN [ImuSame EXCEPT !.res = "nodev"]
    ELSE IF now - last < IMU_SAMPLE_INTERVAL_MS THEN [ImuSame EXCEPT !.res = "gated"]
    ELSE IF frc # 0 THEN [ImuSame EXCEPT !.res = "fetch_err", !.last = now]
    ELSE IF grc # 0
         THEN [ImuSame EXCEPT !.res = "get_err", !.last = now,
                              !.w = imu_add_sample(hist, hist_index, hist_count, s)]
    ELSE ImuProcess(now, s, nrc, src)

\* munin_imu_update at uptime now: s is the sample the driver returns,
\* frc and grc the results of sensor_sample_fetch and sensor_channel_get,
\* nrc and src those of bt_gatt_notify for the face and the tx characteristic.
ImuUpdate(now, s, frc, grc, nrc, src) ==
    IF accel = "null" THEN [ImuSame EXCEPT !.res = "nodev"]
    ELSE IF now - last < IMU_SAMPLE_INTERVAL_MS THEN [ImuSame EXCEPT !.res = "gated"]
    ELSE IF frc # 0 THEN [ImuSame EXCEPT !.res = "fetch_err", !.last = now]
    ELSE IF grc # 0 THEN [ImuSame EXCEPT !.res = "get_err", !.last = now]
    ELSE ImuProcess(now, s, nrc, src)

\* munin_ble_update (ble.c 214-235): the current face is notified once after
\* the client enabled face notifications; brc is what bt_gatt_notify returns.
munin_ble_update(enabled, connected, conn, sent, face, brc) ==
    LET try == enabled /\ connected /\ conn # "null" /\ ~sent /\ face > 0
    IN  [out  |-> IF try THEN <<[ch |-> "face", bytes |-> <<face>>, rc |-> brc]>> ELSE <<>>,
         sent |-> IF ~enabled THEN FALSE
                  ELSE IF try /\ brc = 0 THEN TRUE
                  ELSE sent]


\* One iteration of main's loop as far as the IMU goes: munin_imu_update at
\* the current uptime, then k_sleep: the next iteration starts d ms later.
MainLoop(d, limit, s, frc, grc, nrc, src, brc) ==
    /\ phase = "run"
    /\ clock < limit
    /\ clock' = clock + d
    /\ UNCHANGED <<phase, accel, ble_vars, proto_vars, init_rc, cls_vars, gatt_face>>
    /\ UNCHANGED <<z_vars, bat_vars, led_vars, cfg_vars, snd_pc, snd_fn, snd_reg, notify_conn>>
    /\ \E r \in {ImuUpdate(clock, s, frc, grc, nrc, src)} :
       \E b \in {munin_ble_update(face_notif_enabled, ble_connected, s_conn,
                                  sent_initial_face, r.st.face, brc)} :
         /\ (b.out = <<>> => brc = 0)
         /\ ble_out' = b.out /\ sent_initial_face' = b.sent
         /\ enable_served' = IF enable_served = "pending" /\ b.out # <<>> /\ brc = 0
                              THEN "served" ELSE enable_served
         /\ boot_sent' = boot_sent + CountIn(r.out \o b.out, IsBoot)
         /\ sync_sent' = sync_sent + CountIn(r.out \o b.out, IsStateSync)
         /\ recent' = IF r.res # "processed" THEN recent
                      ELSE IF Len(recent) < IMU_SMOOTH_WINDOW THEN Append(recent, s)
                      ELSE Append(Tail(recent), s)
         \* inputs the call did not read are not enumerated twice
         /\ (r.res \in {"nodev", "gated"} => frc = 0)
         /\ (r.res \in {"nodev", "gated", "fetch_err"} => grc = 0)
         /\ (~r.st.commit => nrc = 0)
         /\ (r.out = <<>> => src = 0)
         /\ last' = r.last
         /\ hist' = r.w.hist /\ hist_index' = r.w.index /\ hist_count' = r.w.count
         /\ s_face' = r.st.face /\ s_candidate' = r.st.cand
         /\ s_candidate_since' = r.st.since /\ s_session_start' = r.st.sess
         /\ last_logged' = r.logged
         /\ out' = r.out /\ res' = r.res
         /\ tx_value' = TxStore(tx_value, r.out, ble_connected, s_conn)
         /\ IF r.res # "processed" THEN UNCHANGED obs_vars
            ELSE \E cont \in {detected # -1 /\ r.det = detected},
                    nsw \in {CountIn(r.out, IsFaceSwitch)},
                    nnf \in {CountIn(r.out, IsFaceNotified)},
                    ncm \in {IF r.st.commit THEN 1 ELSE 0} :
                   /\ detected' = r.det
                   /\ lastp' = clock
                   /\ run_start' = IF cont THEN run_start ELSE clock
                   /\ run_from' = IF cont THEN run_from ELSE s_face
                   /\ run_sw' = IF cont THEN run_sw + nsw ELSE nsw
                   /\ run_nf' = IF cont THEN run_nf + nnf ELSE nnf
                   /\ run_commits' = IF cont THEN run_commits + ncm ELSE ncm
                   /\ progress' = IF r.det # 0 THEN clock - r.st.since ELSE progress
                   /\ hb_session' = IF r.st.commit THEN {}
                                    ELSE IF r.hb THEN hb_session \cup {r.delta_s}
                                    ELSE hb_session
                   /\ poll_ok' = IF r.st.commit THEN TRUE
                                 ELSE poll_ok /\ (clock - lastp <= MS_PER_S)
                   /\ alt_len' = IF r.det = 0 THEN 0
                                 ELSE IF detected \notin {-1, 0} /\ r.det # detected
                                      THEN alt_len + 1
                                 ELSE 1
                   /\ delta_seen' = r.delta_s
                   /\ hb_dup' = IF r.st.commit THEN FALSE
                                ELSE hb_dup \/ (r.hb /\ r.delta_s \in hb_session)

\* ------------------------------------------------------------------ BLE
\* What the connected callback hands to the BLE layer: it stores the
\* connection and sends nothing (ble.c 123-125).
ConnectedOut == <<>>

\* connected callback (ble.c 117-126); the stack calls it only once
\* munin_ble_init has enabled it.
connected(err) ==
    /\ phase = "run" /\ init_rc.ble = 0
    /\ ~ble_connected
    /\ IF err # 0 THEN UNCHANGED <<ble_vars, sync_sent>>
       ELSE /\ s_conn' = "conn" /\ ble_connected' = TRUE
            /\ UNCHANGED face_notif_enabled
            /\ sync_sent' = CountIn(ConnectedOut, IsStateSync)
    /\ UNCHANGED <<phase, clock, imu_vars, obs_vars, proto_vars, out, res>>
    /\ UNCHANGED <<loop_vars, recent, boot_sent, cls_vars, periph_vars, gatt_vars>>

\* disconnected callback (ble.c 128-137).
disconnected ==
    /\ phase = "run"
    /\ ble_connected
    /\ s_conn' = "null" /\ ble_connected' = FALSE
    /\ UNCHANGED face_notif_enabled
    /\ enable_served' = "none"
    /\ snd_reg' = IF snd_reg = "live" THEN "released" ELSE snd_reg
    /\ UNCHANGED <<snd_pc, snd_fn, notify_conn>>
    /\ UNCHANGED <<phase, clock, imu_vars, obs_vars, proto_vars, out, res>>
    /\ UNCHANGED <<loop_vars, sent_vars, cls_vars, gatt_vars>>
    /\ UNCHANGED <<z_vars, bat_vars, led_vars, cfg_vars>>

\* face_ccc_cfg_changed (ble.c 84-94): the peer wrote the face CCC.
face_ccc_cfg_changed(notify) ==
    /\ phase = "run"
    /\ ble_connected
    /\ face_notif_enabled' = notify
    /\ enable_served' = IF ~notify THEN "none"
                         ELSE IF face_notif_enabled /\ enable_served # "none"
                              THEN enable_served
                         ELSE "pending"
    /\ UNCHANGED <<ble_connected, s_conn>>
    /\ UNCHANGED <<phase, clock, imu_vars, obs_vars, proto_vars, out, res>>
    /\ UNCHANGED <<loop_vars, sent_vars, cls_vars, gatt_vars>>
    /\ UNCHANGED <<z_vars, bat_vars, led_vars, cfg_vars, snd_pc, snd_fn, snd_reg, notify_conn>>

\* read_face (ble.c 48-55), the read callback of the face characteristic:
\* the Bluetooth stack calls it from its own thread whenever the connected
\* peer reads the attribute, at any point of main's loop; it returns
\* munin_imu_get_current_face(), one byte, which is the accepted face as it
\* was before or after the assignment of a commit in progress.
read_face ==
    /\ phase = "run" /\ init_rc.ble = 0
    /\ ble_connected
    /\ gatt_face' = munin_imu_get_current_face
    /\ UNCHANGED tx_value
    /\ UNCHANGED <<phase, clock, imu_vars, ble_vars, obs_vars, proto_vars, out, res>>
    /\ UNCHANGED <<loop_vars, sent_vars, cls_vars, periph_vars>>

\* -------------------------------------------------------------- battery
\* voltage_to_percentage (battery.c 46-56): the first table row not above mv.
voltage_to_percentage(mv) ==
    IF mv >= 3620 THEN 100 ELSE IF mv >= 3550 THEN 90 ELSE IF mv >= 3500 THEN 75
    ELSE IF mv >= 3450 THEN 60 ELSE IF mv >= 3400 THEN 45 ELSE IF mv >= 3350 THEN 30
    ELSE IF mv >= 3300 THEN 20 ELSE IF mv >= 3250 THEN 10 ELSE IF mv >= 3200 THEN 5
    ELSE 0

\* battery.c 201-211: the charging status just read replaces the stored one.
ChargeStore(pin, chg) == IF pin # chg THEN pin ELSE chg

\* battery.c 218-234, the charging transition block: pin is chg_new and chg
\* is s_chg as the lines above it left it.
ChargeEvent(pin, chg) ==
    IF pin # chg
        THEN [emit |-> TRUE,
              kind |-> IF pin THEN MUNIN_EVENT_CHARGING_STARTED
                              ELSE MUNIN_EVENT_CHARGING_STOPPED,
              chg |-> pin, rearm |-> pin]
        ELSE [emit |-> FALSE, kind |-> 0, chg |-> chg, rearm |-> FALSE]

\* A variant of LowBattery that re-arms as soon as the voltage is above the
\* low threshold, without the hysteresis.
LowBattery_NoHysteresis(chg, mv, sent) ==
    IF ~chg /\ mv <= LOW_THRESH_MV THEN [emit |-> ~sent, sent |-> TRUE]
    ELSE IF mv > LOW_THRESH_MV THEN [emit |-> FALSE, sent |-> FALSE]
    ELSE [emit |-> FALSE, sent |-> sent]

\* battery.c 236-247, the low battery one-shot.
LowBattery(chg, mv, sent) ==
    IF ~chg /\ mv <= LOW_THRESH_MV THEN [emit |-> ~sent, sent |-> TRUE]
    ELSE IF mv > LOW_THRESH_MV + LOW_HYSTERESIS_MV THEN [emit |-> FALSE, sent |-> FALSE]
    ELSE [emit |-> FALSE, sent |-> sent]

\* battery.c 249-258, the full battery event.
FullBattery(chg, mv, sent) ==
    IF chg /\ mv >= FULL_THRESH_MV THEN [emit |-> ~sent, sent |-> TRUE]
    ELSE [emit |-> FALSE, sent |-> sent]

\* create_packet then send_packet, as battery.c calls them.
BatPacket(kind, seconds, payload, linked, conn, rc) ==
    munin_protocol_send_packet(
        munin_protocol_create_packet(kind, ToU32(seconds), payload), linked, conn, rc)

\* munin_battery_init from its first reading on (battery.c 158-175), the
\* devices being ready: rrc and mv are what read_battery_voltage returns and
\* stores, pin is read_charging_status.
munin_battery_init(pin, rrc, mv) ==
    /\ bat_res = "reset"
    /\ (rrc # 0 => mv = LOW_THRESH_MV)
    /\ IF rrc = 0 THEN s_mv' = mv /\ s_pct' = voltage_to_percentage(mv)
                  ELSE UNCHANGED <<s_mv, s_pct>>
    /\ s_chg' = pin /\ chg_pin' = pin
    /\ bat_res' = "init"
    /\ UNCHANGED <<last_update, last_broadcast, low_sent, full_sent, bat_out,
                   low_count, seen_above, episode_full>>
    /\ UNCHANGED <<phase, clock, imu_vars, ble_vars, out, res, obs_vars, proto_vars,
                   loop_vars, sent_vars, cls_vars, gatt_vars, led_vars, cfg_vars, link_vars, z_vars>>

\* munin_battery_update (battery.c 178-273) at uptime now; rc is what
\* bt_gatt_notify returns for each packet when a client is connected.
munin_battery_update(now, pin, rrc, mv, rc) ==
    /\ bat_res # "reset"
    /\ (rrc # 0 => mv = LOW_THRESH_MV)
    /\ (~ble_connected => rc = 0)
    /\ IF now - last_update < BATTERY_UPDATE_MS
       THEN /\ pin = FALSE /\ rrc = 0 /\ mv = LOW_THRESH_MV
            /\ bat_res' = "gated" /\ bat_out' = <<>>
            /\ UNCHANGED <<s_mv, s_pct, s_chg, last_update, last_broadcast, low_sent,
                           full_sent, chg_pin, low_count, seen_above, episode_full,
                           tx_value>>
       ELSE LET mv1   == IF rrc = 0 THEN mv ELSE s_mv
                pct1  == IF rrc = 0 THEN voltage_to_percentage(mv) ELSE s_pct
                chg1  == ChargeStore(pin, s_chg)
                ev    == ChargeEvent(pin, chg1)
                full0 == IF ev.rearm THEN FALSE ELSE full_sent
                low   == LowBattery(ev.chg, mv1, low_sent)
                full  == FullBattery(ev.chg, mv1, full0)
                bc    == now - last_broadcast >= BATTERY_BROADCAST_MS
                o     == (IF ev.emit
                            THEN <<BatPacket(ev.kind, 0, 0, ble_connected, s_conn, rc)>>
                            ELSE <<>>)
                         \o (IF low.emit
                               THEN <<BatPacket(MUNIN_EVENT_LOW_BATTERY, mv1 \div 10, pct1,
                                                ble_connected, s_conn, rc)>>
                               ELSE <<>>)
                         \o (IF full.emit
                               THEN <<BatPacket(MUNIN_EVENT_FULLY_CHARGED, mv1 \div 10, pct1,
                                                ble_connected, s_conn, rc)>>
                               ELSE <<>>)
                         \o (IF bc
                               THEN <<BatPacket(MUNIN_EVENT_BATTERY_STATUS, mv1 \div 10,
                                                pct1 + (IF ev.chg THEN 128 ELSE 0),
                                                ble_connected, s_conn, rc)>>
                               ELSE <<>>)
            IN  /\ last_update' = now
                /\ s_mv' = mv1 /\ s_pct' = pct1 /\ s_chg' = ev.chg /\ chg_pin' = pin
                /\ low_sent' = low.sent /\ full_sent' = full.sent
                /\ last_broadcast' = IF bc THEN now ELSE last_broadcast
                /\ bat_out' = o /\ bat_res' = "updated"
                /\ tx_value' = TxStore(tx_value, o, ble_connected, s_conn)
                /\ low_count' = IF low.emit THEN Min(low_count + 1, 2) ELSE low_count
                /\ seen_above' = IF low.emit THEN FALSE
                                 ELSE seen_above \/ mv1 > LOW_THRESH_MV + LOW_HYSTERESIS_MV
                /\ episode_full' = IF ~ev.chg THEN FALSE
                                   ELSE IF ~s_chg THEN full.emit
                                   ELSE episode_full \/ full.emit
    /\ UNCHANGED <<phase, imu_vars, ble_vars, out, res, obs_vars, proto_vars,
                   loop_vars, sent_vars, cls_vars, gatt_face, led_vars, cfg_vars, link_vars, z_vars>>

\* ------------------------------------------------------------------ LED
\* set_led_color (led_effects.c 30-52): what the SK6812 and the onboard
\* pins show afterwards; sk and gpio are what they showed before.
set_led_color(face_id, on, colors, target, ready, sk, gpio) ==
    LET color == IF on /\ face_id >= 1 /\ face_id <= 6 THEN colors[face_id] ELSE Dark
        bits  == <<IF color[1] > 0 THEN 1 ELSE 0, IF color[2] > 0 THEN 1 ELSE 0,
                   IF color[3] > 0 THEN 1 ELSE 0>>
    IN  IF target = "SK6812" /\ ready THEN [sk |-> color, gpio |-> Dark]
        ELSE [sk |-> IF ready THEN Dark ELSE sk, gpio |-> bits]

\* A variant of LedEffects that never clears the active flag.
LedEffects_KeepsActive(fl, now) ==
    LET elapsed == now - fl.start_ms
        dur     == IF fl.total_ms # 0 THEN fl.total_ms ELSE FLASH_TOTAL_MS
    IN  IF fl.active = 0 THEN [flash |-> fl, set |-> FALSE, on |-> FALSE, res |-> "idle"]
        ELSE IF elapsed >= dur
            THEN [flash |-> fl, set |-> TRUE, on |-> FALSE, res |-> "end"]
        ELSE IF elapsed < (dur * 6) \div 10
            THEN [flash |-> fl, set |-> TRUE, on |-> TRUE, res |-> "on"]
        ELSE [flash |-> fl, set |-> TRUE, on |-> FALSE, res |-> "off"]

\* munin_led_effects_update (led_effects.c 116-137) at uptime now: the new
\* s_flash and whether set_led_color is called, and with which on.
LedEffects(fl, now) ==
    LET elapsed == now - fl.start_ms
        dur     == IF fl.total_ms # 0 THEN fl.total_ms ELSE FLASH_TOTAL_MS
    IN  IF fl.active = 0 THEN [flash |-> fl, set |-> FALSE, on |-> FALSE, res |-> "idle"]
        ELSE IF elapsed >= dur
            THEN [flash |-> [fl EXCEPT !.active = 0], set |-> TRUE, on |-> FALSE,
                  res |-> "end"]
        ELSE IF elapsed < (dur * 6) \div 10
            THEN [flash |-> fl, set |-> TRUE, on |-> TRUE, res |-> "on"]
        ELSE [flash |-> fl, set |-> TRUE, on |-> FALSE, res |-> "off"]

\* What a call into a peripheral module leaves alone: the IMU pipeline, the
\* link state, and the other modules given.
PeriphSame(others) ==
    UNCHANGED <<phase, imu_vars, ble_vars, out, res, obs_vars, proto_vars,
                loop_vars, sent_vars, cls_vars, others>>

\* munin_led_effects_init (led_effects.c 64-90): ready is whether
\* sk6812_init succeeds; the onboard pins are configured inactive.
munin_led_effects_init(ready) ==
    /\ led_res = "reset"
    /\ sk6812_init_ok' = ready
    /\ s_led_target' = IF ready THEN "SK6812" ELSE "ONBOARD_RGB"
    /\ led_sk' = (IF ready THEN Dark ELSE led_sk) /\ led_gpio' = Dark
    /\ led_res' = "init"
    /\ UNCHANGED <<s_flash, clock, cfg_vars>>
    /\ PeriphSame(<<gatt_vars, bat_vars, link_vars, z_vars>>)

\* munin_led_face_flash (led_effects.c 92-103), called by a commit at uptime
\* clock.
munin_led_face_flash(face_id) ==
    /\ led_res # "reset"
    /\ s_flash' = [active |-> 1, start_ms |-> clock, face |-> face_id,
                   total_ms |-> FLASH_TOTAL_MS]
    /\ \E c \in {set_led_color(face_id, TRUE, s_face_colors, s_led_target,
                               sk6812_init_ok, led_sk, led_gpio)} :
            led_sk' = c.sk /\ led_gpio' = c.gpio
    /\ led_res' = "flash"
    /\ UNCHANGED <<s_led_target, sk6812_init_ok, clock, cfg_vars>>
    /\ PeriphSame(<<gatt_vars, bat_vars, link_vars, z_vars>>)

\* munin_led_effects_update at uptime now.
munin_led_effects_update(now) ==
    /\ led_res # "reset"
    /\ \E u \in {LedEffects(s_flash, now)} :
        /\ s_flash' = u.flash
        /\ led_res' = u.res
        /\ IF u.set
           THEN \E c \in {set_led_color(s_flash.face, u.on, s_face_colors, s_led_target,
                                        sk6812_init_ok, led_sk, led_gpio)} :
                    led_sk' = c.sk /\ led_gpio' = c.gpio
           ELSE UNCHANGED <<led_sk, led_gpio>>
    /\ UNCHANGED <<s_led_target, sk6812_init_ok, cfg_vars>>
    /\ PeriphSame(<<gatt_vars, bat_vars, link_vars, z_vars>>)

\* munin_led_set_face_color (led_config.c 22-28).
munin_led_set_face_color(colors, face, r, g, b) ==
    IF face < 1 \/ face > 6 THEN colors
    ELSE [colors EXCEPT ![face] = <<r % UINT8, g % UINT8, b % UINT8>>]

\* A variant of write_led that accepts any write of at least four bytes.
write_led_AtLeastFour(colors, offset, buf) ==
    IF offset # 0 THEN [rc |-> ERR_INVALID_OFFSET, colors |-> colors]
    ELSE IF Len(buf) < LED_WRITE_LEN THEN [rc |-> ERR_INVALID_ATTRIBUTE_LEN, colors |-> colors]
    ELSE IF buf[1] < 1 \/ buf[1] > 6 THEN [rc |-> ERR_VALUE_NOT_ALLOWED, colors |-> colors]
    ELSE [rc |-> Len(buf),
          colors |-> munin_led_set_face_color(colors, buf[1], buf[2], buf[3], buf[4])]

\* write_led (ble.c 57-81), the write callback of the LED characteristic:
\* the value it returns and the face colours it leaves.
write_led(colors, offset, buf) ==
    IF offset # 0 THEN [rc |-> ERR_INVALID_OFFSET, colors |-> colors]
    ELSE IF Len(buf) # LED_WRITE_LEN THEN [rc |-> ERR_INVALID_ATTRIBUTE_LEN, colors |-> colors]
    ELSE IF buf[1] < 1 \/ buf[1] > 6 THEN [rc |-> ERR_VALUE_NOT_ALLOWED, colors |-> colors]
    ELSE [rc |-> Len(buf),
          colors |-> munin_led_set_face_color(colors, buf[1], buf[2], buf[3], buf[4])]

\* A peer writes buf at offset to the LED characteristic.
LedWrite(offset, buf) ==
    /\ led_res # "reset" /\ wr_n < MaxLedWrites
    /\ \E w \in {write_led(s_face_colors, offset, buf)} :
        /\ s_face_colors' = w.colors
        /\ wr' = [offset |-> offset, buf |-> buf, rc |-> w.rc]
    /\ wr_n' = wr_n + 1
    /\ UNCHANGED <<clock, led_vars>>
    /\ PeriphSame(<<gatt_vars, bat_vars, link_vars, z_vars>>)

\* ------------------------------------------- the send path, step by step
\* munin_ble_send_data and munin_ble_notify_face as main executes them
\* while the connected and disconnected callbacks run on the Bluetooth
\* thread, which preempts main: the guard (ble.c 239, 247) and the
\* bt_gatt_notify call (ble.c 242, 249) are two steps, and a callback can
\* run between them.  Nothing orders the accesses to s_conn and
\* ble_connected (plain statics, no lock).
\* The guard of fn: it returns -1, or lets the call go on with the s_conn
\* it loaded.
SendGuard(fn) ==
    /\ phase = "run" /\ snd_pc = "idle"
    /\ ble_connected /\ s_conn # "null"
    /\ fn = "face" => face_notif_enabled
    /\ snd_pc' = "checked" /\ snd_fn' = fn /\ snd_reg' = "live"
    /\ UNCHANGED <<notify_conn, enable_served>>
    /\ PeriphSame(<<clock, gatt_vars, bat_vars, led_vars, cfg_vars, z_vars>>)

\* The bt_gatt_notify call of fn: its first argument is s_conn, either the
\* value the guard loaded (reload = FALSE) or the value s_conn has now.
SendNotify(reload) ==
    /\ snd_pc = "checked"
    /\ notify_conn' = IF ~reload THEN snd_reg
                      ELSE IF s_conn = "null" THEN "null" ELSE "live"
    /\ snd_pc' = "idle" /\ snd_fn' = "none" /\ snd_reg' = "none"
    /\ UNCHANGED enable_served
    /\ PeriphSame(<<clock, gatt_vars, bat_vars, led_vars, cfg_vars, z_vars>>)

\* ------------------------------------------- munin_zephyr/src/imu.c
\* detect_face_from_accel (munin_zephyr imu.c 27-51): the strictly dominant
\* axis above the threshold, else the current face.
detect_face_from_accel(s, cur) ==
    LET x == s[1]  y == s[2]  z == s[3]
    IN  IF Abs(x) > Abs(y) /\ Abs(x) > Abs(z) /\ Abs(x) > Z_FACE_DETECTION_THRESHOLD
            THEN (IF x > 0 THEN 1 ELSE 2)
        ELSE IF Abs(y) > Abs(x) /\ Abs(y) > Abs(z) /\ Abs(y) > Z_FACE_DETECTION_THRESHOLD
            THEN (IF y > 0 THEN 3 ELSE 4)
        ELSE IF Abs(z) > Abs(x) /\ Abs(z) > Abs(y) /\ Abs(z) > Z_FACE_DETECTION_THRESHOLD
            THEN (IF z > 0 THEN 5 ELSE 0)
        ELSE cur

\* munin_zephyr's munin_imu_init (imu.c 53-94) with the device ready and
\* both reads succeeding, returning at uptime now.
z_munin_imu_init(now, s) ==
    /\ z_res = "reset"
    /\ clock' = now
    /\ \E f \in {detect_face_from_accel(s, current_face)} :
        /\ current_face' = f /\ candidate_face' = f /\ last_settled_face' = f
        /\ z_out' = <<munin_protocol_create_packet(MUNIN_EVENT_BOOT, ToU32(0), f)>>
    /\ face_change_time' = now /\ session_start_time' = now
    /\ z_sample' = s /\ z_res' = "init"
    /\ UNCHANGED <<last_imu_sample, z_log_s, z_log_n>>
    /\ PeriphSame(<<gatt_vars, bat_vars, led_vars, cfg_vars, link_vars>>)

\* munin_zephyr's munin_imu_update (imu.c 96-158) at uptime now; frc and
\* grc are what sensor_sample_fetch and sensor_channel_get return.
z_munin_imu_update(now, s, frc, grc) ==
    /\ z_res # "reset"
    /\ clock' = now
    /\ IF now - last_imu_sample < Z_IMU_SAMPLE_INTERVAL_MS \/ frc # 0 \/ grc # 0
       THEN /\ z_res' = IF now - last_imu_sample < Z_IMU_SAMPLE_INTERVAL_MS THEN "gated"
                        ELSE IF frc # 0 THEN "fetch_err" ELSE "get_err"
            /\ (z_res' = "gated" => s = z_sample /\ frc = 0)
            /\ (z_res' # "get_err" => grc = 0)
            /\ (z_res' # "gated" => s = z_sample)
            /\ z_out' = <<>>
            /\ UNCHANGED <<current_face, candidate_face, last_settled_face,
                           face_change_time, last_imu_sample, session_start_time,
                           z_sample, z_log_s, z_log_n>>
       ELSE LET det    == detect_face_from_accel(s, current_face)
                commit == det = candidate_face /\ candidate_face # current_face
                          /\ now - face_change_time >= Z_FACE_SETTLE_TIME_MS
                stable == det = candidate_face /\ candidate_face = current_face
                secs   == (now - session_start_time) \div MS_PER_S
                log    == stable /\ secs > 0 /\ secs % Z_LOG_INTERVAL_S = 0
            IN  /\ candidate_face' = det
                /\ face_change_time' = IF det # candidate_face THEN now
                                       ELSE face_change_time
                /\ current_face' = IF commit THEN candidate_face ELSE current_face
                /\ last_settled_face' = IF commit THEN candidate_face
                                        ELSE last_settled_face
                /\ session_start_time' = IF commit THEN now ELSE session_start_time
                /\ z_out' = IF commit
                                THEN <<munin_protocol_create_packet(MUNIN_EVENT_FACE_SWITCH, ToU32(0),
                                                                  candidate_face)>>
                            ELSE IF log
                                THEN <<munin_protocol_create_packet(MUNIN_EVENT_ONGOING_LOG, ToU32(secs),
                                                                  current_face)>>
                            ELSE <<>>
                /\ last_imu_sample' = now
                /\ z_sample' = s /\ z_res' = "sampled"
                /\ z_log_s' = IF commit THEN 0 ELSE IF log THEN secs ELSE z_log_s
                /\ z_log_n' = IF commit THEN 0
                              ELSE IF log /\ secs = z_log_s THEN Min(z_log_n + 1, 3)
                              ELSE IF log THEN 1
                              ELSE z_log_n
    /\ PeriphSame(<<gatt_vars, bat_vars, led_vars, cfg_vars, link_vars>>)

\* -------------------------------------------------------- specifications
\* The init calls of main (main.c 72-74): each result is only logged;
\* batt_rc and ble_rc are what munin_battery_init and munin_ble_init return.
ImuInitRc(r) == IF r = "init_nodev" THEN -1 ELSE IF r = "init_zero" THEN -2 ELSE 0

main_init(batt_rc, ble_rc, dev, fetched, s) ==
    /\ munin_imu_init(dev, fetched, s)
    /\ init_rc' = [battery |-> batt_rc, imu |-> ImuInitRc(res'), ble |-> ble_rc]

Boot == \E dev \in {"null", "notready", "ready"}, fetched \in BOOLEAN, s \in InitSamples :
            main_init(0, 0, dev, fetched, s)

\* A failed read is a failed sensor_sample_fetch here, and munin_ble_update's
\* notification succeeds; SpecFault has the other failures too.
Tick == \E d \in Steps, s \in Samples, frc \in DriverRcs, grc \in {0},
           nrc \in NotifyRcs, src \in NotifyRcs, brc \in {0} :
            MainLoop(d, BootMs + MaxLoops * MAIN_SLEEP_MS, s, frc, grc, nrc, src, brc)

Link == \/ \E err \in {0, 1} : connected(err)
        \/ disconnected
        \/ \E notify \in BOOLEAN : face_ccc_cfg_changed(notify)

Next == Boot \/ Tick \/ Link

\* The settle specification: boot, the main loop on free samples and read
\* results, and the link callbacks.
Spec == Init /\ [][Next]_vars

\* The heartbeat specification: a device that boots resting on face 6 and is
\* turned at most once, to face 3, polled every 500 ms with no client.
LastSample == hist[((hist_index + IMU_SMOOTH_WINDOW - 1) % IMU_SMOOTH_WINDOW) + 1]

HbBoot == main_init(0, 0, "ready", TRUE, SampleZ)

HbTick == \E d \in Steps, s \in HbSamples :
            /\ (LastSample = SampleY => s = SampleY)
            /\ MainLoop(d, MaxHbSeconds * MS_PER_S, s, 0, 0, 0, 0, 0)

NextHb == HbBoot \/ HbTick

SpecHb == Init /\ [][NextHb]_vars

\* The fault specification: every outcome of the three init calls and of the
\* driver and notify calls of a loop iteration, over a shorter run.
FaultSamples == {SampleY, SampleA}

FaultBoot == \E batt_rc \in DriverRcs, ble_rc \in DriverRcs,
                dev \in {"null", "notready", "ready"}, fetched \in BOOLEAN,
                s \in InitSamples :
                main_init(batt_rc, ble_rc, dev, fetched, s)

FaultTick == \E d \in Steps, s \in FaultSamples, frc \in DriverRcs, grc \in DriverRcs,
                nrc \in NotifyRcs, src \in NotifyRcs, brc \in NotifyRcs :
                MainLoop(d, BootMs + MaxFaultLoops * MAIN_SLEEP_MS, s, frc, grc, nrc, src, brc)

NextFault == FaultBoot \/ FaultTick \/ Link

SpecFault == Init /\ [][NextFault]_vars

\* The attribute-read specification: boot, a short run of the loop in which
\* the device can be turned to face 3, the link callbacks and read_face.
GattTick == \E d \in Steps, s \in HbSamples, nrc \in NotifyRcs :
                MainLoop(d, BootMs + MaxGattLoops * MAIN_SLEEP_MS, s, 0, 0, nrc, 0, 0)

NextGatt == Boot \/ GattTick \/ Link \/ read_face

SpecGatt == Init /\ [][NextGatt]_vars

\* The turning specification: a device that boots with its sensor ready and
\* is turned freely, with no client and no failed read, long enough for one
\* session to follow another.
TurnBoot == \E s \in InitSamples : main_init(0, 0, "ready", TRUE, s)

TurnTick == \E d \in Steps, s \in Samples :
                MainLoop(d, BootMs + MaxTurnLoops * MAIN_SLEEP_MS, s, 0, 0, 0, 0, 0)

NextTurn == TurnBoot \/ TurnTick

SpecTurn == Init /\ [][NextTurn]_vars

\* The battery specification: munin_battery_init and then
\* munin_battery_update called at growing uptimes, on free pin and voltage
\* readings, with no client connected.
BatTick == \E d \in BatSteps, pin \in BOOLEAN, rrc \in DriverRcs, mv \in BatVolts,
              rc \in NotifyRcs :
                /\ clock + d <= MaxBatSeconds * MS_PER_S
                /\ clock' = clock + d
                /\ munin_battery_update(clock + d, pin, rrc, mv, rc)

NextBat == \/ \E pin \in BOOLEAN, rrc \in DriverRcs, mv \in BatVolts :
                munin_battery_init(pin, rrc, mv)
           \/ BatTick

SpecBat == Init /\ [][NextBat]_vars

\* The LED specification: munin_led_effects_init, flashes started at free
\* uptimes, munin_led_effects_update called at growing uptimes, and writes
\* of a peer to the LED characteristic.
LedTick == \E d \in LedSteps :
                /\ clock + d <= MaxLedMs
                /\ clock' = clock + d
                /\ munin_led_effects_update(clock + d)

NextLed == \/ \E ready \in BOOLEAN : munin_led_effects_init(ready)
           \/ \E f \in LedFaces : munin_led_face_flash(f)
           \/ LedTick
           \/ \E offset \in {0, 1}, buf \in LedBufs : LedWrite(offset, buf)

SpecLed == Init /\ [][NextLed]_vars

\* The interleaving specification: boot, the link callbacks, and the two
\* steps of a send.
NextRace == \/ Boot \/ Link
            \/ \E fn \in {"tx", "face"} : SendGuard(fn)
            \/ \E reload \in BOOLEAN : SendNotify(reload)

SpecRace == Init /\ [][NextRace]_vars

\* The munin_zephyr specification: its munin_imu_init, then its
\* munin_imu_update called every 50 or 100 ms; the device can be turned and
\* a read can fail during the first MaxZTurnMs after boot.
ZTick == \E d \in ZSteps, s \in ZSamples, frc \in DriverRcs, grc \in DriverRcs :
            /\ clock + d <= MaxZSeconds * MS_PER_S
            /\ (clock >= BootMs + MaxZTurnMs => s = z_sample /\ frc = 0 /\ grc = 0)
            /\ z_munin_imu_update(clock + d, s, frc, grc)

NextZ == \/ \E s \in ZSamples : z_munin_imu_init(BootMs, s)
         \/ ZTick

SpecZ == Init /\ [][NextZ]_vars

\* The classifier specification: face_from_avg on enumerated averages,
\* among them the thresholds and their neighbours.
AxisVals == {-900, -730, -600, -550, -549, -370, -100, 0, 20, 50, 100,
             369, 370, 371, 500, 549, 550, 600, 729, 730, 731, 900}

\* One call per behaviour: the arguments are still the zeroes of Init.
Classify(x, y, z) ==
    /\ <<cx, cy, cz>> = <<0, 0, 0>>
    /\ cx' = x /\ cy' = y /\ cz' = z
    /\ cface' = face_from_avg(x, y, z)
    /\ UNCHANGED <<phase, clock, imu_vars, ble_vars, out, res, obs_vars, proto_vars,
                   loop_vars, sent_vars, gatt_vars, periph_vars>>

NextFace == \E x \in AxisVals, y \in AxisVals, z \in AxisVals : Classify(x, y, z)

SpecFace == Init /\ [][NextFace]_vars

\* The protocol specification: create_packet and send_packet on enumerated
\* inputs, with the link up or down.
ProtoCreate(kind, seconds, payload) ==
    /\ phase = "run"
    /\ packet = NoPacket
    /\ p_kind' = kind /\ p_seconds' = seconds /\ p_payload' = payload
    /\ packet' = munin_protocol_create_packet(kind, seconds, payload)
    /\ wire' = NoSend
    /\ UNCHANGED <<phase, clock, imu_vars, ble_vars, obs_vars, out, res>>
    /\ UNCHANGED <<loop_vars, sent_vars, cls_vars, periph_vars, gatt_vars>>

ProtoSend(rc) ==
    /\ phase = "run"
    /\ wire = NoSend
    /\ packet # NoPacket
    /\ wire' = munin_protocol_send_packet(packet, ble_connected, s_conn, rc)
    /\ (wire'.rc = -1 => rc = 0)
    /\ UNCHANGED <<phase, clock, imu_vars, ble_vars, obs_vars, out, res,
                   p_kind, p_seconds, p_payload, packet>>
    /\ UNCHANGED <<loop_vars, sent_vars, cls_vars, periph_vars, gatt_face>>
    /\ tx_value' = TxStore(tx_value, <<wire'>>, ble_connected, s_conn)

ProtoBoot == \E dev \in {"null", "ready"} : main_init(0, 0, dev, TRUE, SampleI)

Encode == \/ \E k \in Kinds, hi \in Words, lo \in Words, f \in Payloads :
                ProtoCreate(k, U32(hi, lo), f)
          \/ \E rc \in NotifyRcs : ProtoSend(rc)

NextProto == ProtoBoot \/ Link \/ Encode

SpecProto == Init /\ [][NextProto]_vars

\* ---------------------------------------------------------------- claims
\* A step in which munin_imu_update processed a sample (it ran at uptime
\* clock, the value before the step).
TickStep == clock' # clock /\ res' = "processed"

FaceReports(o) == {i \in 1..Len(o) : IsFaceSwitch(o[i]) \/ o[i].ch = "face"}
FaceSwitchPacket(face) == <<MUNIN_EVENT_FACE_SWITCH, 0, 0, 0, 0, face>>
OngoingLogs(o) == {i \in 1..Len(o) : IsOngoingLog(o[i])}

\* The reports of the last tick carry the accepted face: a FACE_SWITCH packet
\* has seconds 0 and payload s_face, a face notification the byte s_face.
ReportsCarryFace ==
    \A i \in FaceReports(out) :
        IF out[i].ch = "face" THEN out[i].bytes = <<s_face>>
        ELSE out[i].bytes = FaceSwitchPacket(s_face)

\* A run of ticks all classified 3 that began on another accepted face and
\* has lasted the settle time.
SettledOnThree ==
    /\ res = "processed" /\ detected = 3 /\ run_from # 3
    /\ lastp - run_start >= FACE_SETTLE_TIME_MS

\* C1 as stated: once every tick has classified face 3 for the settle time,
\* the accepted face is 3, it was committed exactly once and exactly one
\* FACE_SWITCH packet was emitted, however long the run goes on.
C1_OneFaceSwitchPacket ==
    SettledOnThree => s_face = 3 /\ run_commits = 1 /\ run_sw = 1

\* C1 amended: ... the accepted face is 3, it was committed exactly once and
\* exactly one face update was emitted for it: the face notification when
\* munin_ble_notify_face succeeded, else one FACE_SWITCH packet (seconds 0,
\* payload 3); further ticks emit no second update.
C1_OneFaceUpdate ==
    /\ SettledOnThree => s_face = 3 /\ run_commits = 1 /\ run_sw + run_nf = 1
    /\ res = "processed" => ReportsCarryFace

C1_Witness ==
    /\ SettledOnThree /\ lastp - run_start >= FACE_SETTLE_TIME_MS + MAIN_SLEEP_MS
    /\ s_face = 3 /\ run_nf = 1 /\ run_sw = 0 /\ out = <<>>

\* C2: a tick commits face F only at the end of a run of processed ticks all
\* classified F that spans at least the settle time.
C2_CommitEndsSettledRun ==
    (res = "processed" /\ FaceReports(out) # {}) =>
        (detected = s_face /\ lastp - run_start >= FACE_SETTLE_TIME_MS)

\* C3: at the first non-ambiguous tick after ambiguous ones, for the candidate
\* still in flight, the time toward commit (now - candidate_since) is what it
\* was at the last non-ambiguous tick.
C3_AmbiguousTicksFreezeProgress ==
    [][(TickStep /\ detected = 0 /\ detected' # 0
        /\ detected' = s_candidate /\ detected' # s_face)
       => clock - s_candidate_since = progress]_vars

\* C4: a tick classified non-ambiguous and unlike the non-ambiguous tick
\* before it restarts candidate_since, leaves the accepted face and emits no
\* face update; so a run alternating between two faces never commits.
C4_AlternationNeverCommits ==
    [][(TickStep /\ alt_len' >= 2)
       => /\ s_candidate_since' = clock
          /\ s_face' = s_face /\ s_session_start' = s_session_start
          /\ FaceReports(out') = {}]_vars

C4_Witness == res = "processed" /\ alt_len >= 4 /\ detected \in {1, 3}

\* C5: a tick classified 0 leaves accepted, candidate, candidate_since and
\* session_start as they were and emits no face update.
C5_AmbiguousTickChangesNothing ==
    [][(TickStep /\ detected' = 0)
       => /\ s_face' = s_face /\ s_candidate' = s_candidate
          /\ s_candidate_since' = s_candidate_since
          /\ s_session_start' = s_session_start
          /\ FaceReports(out') = {}]_vars

C5_Witness ==
    /\ res = "processed" /\ detected = 0
    /\ s_candidate # s_face /\ lastp - s_candidate_since >= 2 * MAIN_SLEEP_MS

\* Positive multiples of the log interval up to n seconds.
LogMultiples(n) == {m \in 1..n : m % LOG_INTERVAL_S = 0}

\* C6: in a session polled at least once per second the ONGOING_LOGs emitted
\* so far are those of the elapsed seconds 60, 120, 180 already reached, each
\* once.
C6_HeartbeatAtEachMinute ==
    (res = "processed" /\ poll_ok) =>
        (hb_session = LogMultiples(delta_seen) /\ ~hb_dup)

\* C7: in every session, a tick whose elapsed seconds are a positive multiple
\* of 60 finds that multiple reported, once, in this session.
C7_MarkerResetsWithSession ==
    (res = "processed" /\ delta_seen > 0 /\ delta_seen % LOG_INTERVAL_S = 0) =>
        (delta_seen \in hb_session /\ ~hb_dup)

\* C8: an ONGOING_LOG carries the elapsed seconds of the session, a positive
\* multiple of 60, and the accepted face; a tick emits at most one, and none
\* repeats a seconds value of its session.
C8_OngoingLogContent ==
    /\ res = "processed" =>
         /\ Cardinality(OngoingLogs(out)) <= 1
         /\ \A i \in OngoingLogs(out) :
              /\ delta_seen = (lastp - s_session_start) \div MS_PER_S
              /\ delta_seen > 0 /\ delta_seen % LOG_INTERVAL_S = 0
              /\ out[i].bytes = wire_packet(munin_protocol_create_packet(
                                    MUNIN_EVENT_ONGOING_LOG, ToU32(delta_seen), s_face))
              /\ delta_seen \in hb_session
    /\ ~hb_dup

C8_Witness ==
    /\ res = "processed" /\ OngoingLogs(out) = {}
    /\ delta_seen = 2 * LOG_INTERVAL_S /\ hb_session = {LOG_INTERVAL_S, 2 * LOG_INTERVAL_S}

\* C9: session_start never lies after the clock; the session's elapsed
\* seconds, as munin_imu_get_session_delta_s and as the heartbeat's delta_s,
\* are floor((now - session_start) / 1000) and never negative.
C9_SessionStartNotAfterNow ==
    /\ s_session_start <= clock
    /\ munin_imu_get_session_delta_s(clock) >= 0
    /\ munin_imu_get_session_delta_s(clock) * MS_PER_S <= clock - s_session_start
    /\ clock - s_session_start < (munin_imu_get_session_delta_s(clock) + 1) * MS_PER_S
    /\ res = "processed" =>
         /\ s_session_start <= lastp
         /\ delta_seen >= 0
         /\ delta_seen * MS_PER_S <= lastp - s_session_start
         /\ lastp - s_session_start < (delta_seen + 1) * MS_PER_S

C9_Witness ==
    /\ res = "processed" /\ s_session_start > BootMs
    /\ munin_imu_get_session_delta_s(clock) >= 1

\* C10: the record of create_packet then send_packet is 6 bytes: the kind,
\* the seconds least significant byte first, the payload.
C10_WireLayout ==
    wire.ch = "tx" =>
        /\ Len(wire.bytes) = MUNIN_PACKET_SIZE
        /\ \A i \in 1..Len(wire.bytes) : wire.bytes[i] \in 0..(UINT8 - 1)
        /\ wire.bytes[1] = p_kind
        /\ wire.bytes[2] + UINT8 * wire.bytes[3] = p_seconds.lo
        /\ wire.bytes[4] + UINT8 * wire.bytes[5] = p_seconds.hi
        /\ wire.bytes[6] = p_payload

C10_Witness ==
    /\ wire.ch = "tx" /\ wire.rc = 0
    /\ p_kind = MUNIN_EVENT_ONGOING_LOG /\ p_seconds = U32(258, 772) /\ p_payload = 3
    /\ wire.bytes = <<2, 4, 3, 2, 1, 3>>

\* C11: decoding the record that create_packet and send_packet produced gives
\* back the kind, the 32-bit seconds and the payload they were given.
C11_DecodeInvertsEncode ==
    wire.ch = "tx" =>
        decode(wire.bytes) = [ok |-> TRUE, kind |-> p_kind, seconds |-> p_seconds,
                              payload |-> p_payload]

C11_Witness ==
    /\ wire.ch = "tx" /\ p_kind = 255 /\ p_seconds = U32(65535, 1) /\ p_payload = 6
    /\ decode(wire.bytes).seconds = U32(65535, 1)

\* The largest and the second-largest of three magnitudes.
Largest(a, b, c) == IF a >= b /\ a >= c THEN a ELSE IF b >= c THEN b ELSE c
SecondLargest(a, b, c) ==
    Largest(IF a < b THEN a ELSE b, IF a < c THEN a ELSE c, IF b < c THEN b ELSE c)

\* C12: face_from_avg gives 0 exactly when the largest magnitude m1 is below
\* 0.55 or m1 - m2 is below 0.18 (ties included), and otherwise the id of the
\* axis attaining m1 with its sign; (0.9, 0.05, 0.02) gives 1 and
\* (0.6, 0.5, 0.1) gives 0.
C12_DominantAxisWithMargin ==
    LET m1 == Largest(Abs(cx), Abs(cy), Abs(cz))
        m2 == SecondLargest(Abs(cx), Abs(cy), Abs(cz))
    IN  /\ (cface = 0) <=> (m1 < IMU_MIN_AXIS_G \/ m1 - m2 < IMU_AXIS_MARGIN_G)
        /\ cface \in 0..6
        /\ cface = 1 => Abs(cx) = m1 /\ cx > 0
        /\ cface = 2 => Abs(cx) = m1 /\ cx < 0
        /\ cface = 3 => Abs(cy) = m1 /\ cy > 0
        /\ cface = 4 => Abs(cy) = m1 /\ cy < 0
        /\ cface = 5 => Abs(cz) = m1 /\ cz > 0
        /\ cface = 6 => Abs(cz) = m1 /\ cz < 0
        /\ (cx = 900 /\ cy = 50 /\ cz = 20) => cface = 1
        /\ (cx = 600 /\ cy = 500 /\ cz = 100) => cface = 0
        /\ (m1 = m2 /\ <<cx, cy, cz>> # <<0, 0, 0>>) => cface = 0

C12_Witness == cx = 370 /\ cy = -550 /\ cz = 369 /\ cface = 4

\* Sum of one axis over a sequence of samples.
RECURSIVE AxisTotal(_, _)
AxisTotal(q, axis) == IF q = <<>> THEN 0 ELSE Head(q)[axis] + AxisTotal(Tail(q), axis)

\* C13: after k pushes the window holds exactly the last min(k, N) pushed
\* samples, the newest just before hist_index, and imu_get_average is their
\* per-axis arithmetic mean.
C13_WindowHoldsLastPushes ==
    LET n   == Len(recent)
        avg == imu_get_average(hist, hist_count)
    IN  /\ n = hist_count
        /\ \A j \in 1..n :
              hist[((hist_index + IMU_SMOOTH_WINDOW - j) % IMU_SMOOTH_WINDOW) + 1]
                  = recent[n + 1 - j]
        /\ \A i \in (n + 1)..IMU_SMOOTH_WINDOW : hist[i] = <<0, 0, 0>>
        /\ n > 0 => \A a \in 1..3 : avg[a] * n = AxisTotal(recent, a)

C13_Witness ==
    /\ recent = <<SampleI, SampleI, SampleI, SampleY, SampleX, SampleA>>
    /\ hist_index = 3
    /\ imu_get_average(hist, hist_count) = <<1190, 890, 0>>

\* Sum of one axis over the first n slots of the window.
RECURSIVE SlotTotal(_, _)
SlotTotal(n, axis) == IF n = 0 THEN 0 ELSE hist[n][axis] + SlotTotal(n - 1, axis)

\* C14: hist_count <= N and 0 <= hist_index < N always; the average of an
\* empty window is the zero vector, and that of a window with fewer than N
\* samples is the mean of the slots filled so far.
C14_WindowBoundsAndMean ==
    LET avg == imu_get_average(hist, hist_count)
    IN  /\ hist_count \in 0..IMU_SMOOTH_WINDOW
        /\ hist_index \in 0..(IMU_SMOOTH_WINDOW - 1)
        /\ hist_count = 0 => avg = <<0, 0, 0>>
        /\ hist_count > 0 =>
              \A a \in 1..3 : avg[a] * hist_count = SlotTotal(hist_count, a)

C14_Witness ==
    /\ hist_count = 3 /\ hist_index = 3
    /\ imu_get_average(hist, hist_count) = <<1360, 1000, 0>>

\* munin_imu_init has just returned, having seeded the pipeline or not.
InitSeeded == res \in {"init_ok", "init_zero"}

\* The window holds the sample s in all N slots and its average is s.
WindowSeededWith(s) ==
    /\ hist_count = IMU_SMOOTH_WINDOW
    /\ \A i \in 1..IMU_SMOOTH_WINDOW : hist[i] = s
    /\ imu_get_average(hist, hist_count) = s

\* C15 as stated: after a munin_imu_init that read a first sample the window holds the first sample in
\* all N slots, accepted = candidate = the classification of that sample,
\* and candidate_since = session_start = the initialization time.
C15_SeededWithClassification ==
    InitSeeded =>
        /\ recent # <<>> /\ WindowSeededWith(recent[1])
        /\ s_face = face_from_avg(recent[1][1], recent[1][2], recent[1][3])
        /\ s_candidate = s_face
        /\ s_candidate_since = clock /\ s_session_start = clock

\* C15 amended: after a munin_imu_init that found the device ready, the
\* window holds the first sample in all N slots, accepted = candidate = the
\* classification of that sample, or face 6 when that classification is 0,
\* and candidate_since = session_start = the initialization time; when the
\* device is missing or not ready nothing is seeded.
C15_SeededWithClassificationOrFallback ==
    /\ InitSeeded =>
          /\ recent # <<>> /\ WindowSeededWith(recent[1])
          /\ LET c == face_from_avg(recent[1][1], recent[1][2], recent[1][3])
             IN  s_face = IF c = 0 THEN FALLBACK_FACE ELSE c
          /\ s_candidate = s_face
          /\ s_candidate_since = clock /\ s_session_start = clock
    /\ res = "init_nodev" =>
          /\ hist_count = 0 /\ hist = ZeroHist
          /\ s_face = 0 /\ s_candidate = 0
          /\ s_candidate_since = 0 /\ s_session_start = 0

C15_Witness ==
    /\ res = "init_zero" /\ recent[1] = SampleO /\ WindowSeededWith(SampleO)
    /\ s_face = FALLBACK_FACE /\ s_candidate = FALLBACK_FACE /\ s_session_start = BootMs

\* A step in which munin_imu_update ran and the sensor read failed.
ReadFailedStep == clock' # clock /\ res' \in {"fetch_err", "get_err"}

\* C16: when sensor_sample_fetch or sensor_channel_get fails on a poll tick,
\* munin_imu_update leaves the smoothing window, the accepted face, the
\* candidate, candidate_since and session_start as they were and emits no
\* event; the call of the next loop iteration is not rate-gated, it reads
\* the sensor again.
C16_FailedReadSkipsTick ==
    [][/\ ReadFailedStep =>
             /\ UNCHANGED <<hist, hist_index, hist_count>>
             /\ UNCHANGED <<s_face, s_candidate, s_candidate_since, s_session_start>>
             /\ UNCHANGED last_logged
             /\ out' = <<>>
       /\ (res \in {"fetch_err", "get_err"} /\ clock' # clock) =>
             res' \in {"fetch_err", "get_err", "processed"}]_vars

\* A failed channel read while a candidate was pending on a full window.
C16_Witness ==
    /\ res = "get_err" /\ hist_count = IMU_SMOOTH_WINDOW
    /\ s_candidate # s_face /\ s_candidate_since > s_session_start

\* One of the three init calls of main returned an error.
InitFailed == init_rc.battery # 0 \/ init_rc.imu # 0 \/ init_rc.ble # 0

\* C17 as stated: once munin_imu_init, munin_ble_init or munin_battery_init
\* has returned an error, munin_imu_update never processes a sample.
C17_FailedInitStopsPipeline ==
    InitFailed => res # "processed"

\* C17 amended: when munin_imu_init failed because the device struct is
\* missing, every later munin_imu_update returns at once: it processes no
\* sample, changes neither the window nor the settle state and emits nothing.
\* Every other init failure is only logged: with a device struct the call is
\* never refused, whatever the init calls returned.
C17_MissingDeviceStopsPipeline ==
    [][clock' # clock /\ phase = "run" =>
          /\ accel = "null" =>
                /\ init_rc.imu = -1 /\ res' = "nodev" /\ out' = <<>>
                /\ UNCHANGED <<hist, hist_index, hist_count, last, last_logged>>
                /\ UNCHANGED <<s_face, s_candidate, s_candidate_since, s_session_start>>
                /\ hist_count = 0 /\ s_face = 0 /\ s_session_start = 0
          /\ accel # "null" => res' # "nodev"]_vars

\* The third iteration of the loop after an init that found no device struct.
C17_Witness ==
    /\ accel = "null" /\ init_rc.imu = -1 /\ res = "nodev"
    /\ clock = BootMs + 3 * MAIN_SLEEP_MS /\ hist_count = 0 /\ s_face = 0

\* A processed tick that committed a new accepted face.
CommitStep == TickStep /\ s_face' # s_face

\* What munin_imu_update emitted, without the face notifications that were
\* refused (return value < 0): those reached no client.
Emitted(o) == SelectSeq(o, LAMBDA e : ~(e.ch = "face" /\ e.rc < 0))

\* The classification of a processed tick is that of the average of the
\* window after the push, whose newest slot is the sample of the tick.
ClassifiedAfterPush ==
    TickStep =>
        /\ LastSample' = recent'[Len(recent')]
        /\ LET avg == imu_get_average(hist', hist_count')
           IN  detected' = face_from_avg(avg[1], avg[2], avg[3])

\* C18 as stated: the classification is that of the window holding the pushed
\* sample, and the first event a commit tick emits is the FACE_SWITCH packet
\* with seconds 0 and payload the newly accepted face.
C18_CommitThenFaceSwitchPacket ==
    [][/\ ClassifiedAfterPush
       /\ CommitStep =>
             /\ Emitted(out') # <<>>
             /\ Emitted(out')[1].ch = "tx"
             /\ Emitted(out')[1].bytes = FaceSwitchPacket(s_face')]_vars

\* C18 amended: the classification is that of the window holding the pushed
\* sample, and a commit tick emits exactly its face update, first and alone:
\* the face notification carrying the newly accepted face when
\* munin_ble_notify_face succeeded, else the FACE_SWITCH packet with seconds 0
\* and that face; no ONGOING_LOG goes with it, and a tick that commits
\* nothing emits no face update.
C18_CommitThenFaceUpdate ==
    [][/\ ClassifiedAfterPush
       /\ CommitStep =>
             /\ Len(Emitted(out')) = 1
             /\ IF out'[1].rc >= 0
                THEN out' = <<[ch |-> "face", bytes |-> <<s_face'>>, rc |-> out'[1].rc]>>
                ELSE /\ Len(out') = 2 /\ out'[1].ch = "face"
                     /\ out'[2].ch = "tx" /\ out'[2].bytes = FaceSwitchPacket(s_face')
             /\ OngoingLogs(out') = {}
       /\ (TickStep /\ s_face' = s_face) => FaceReports(out') = {}]_vars

\* A commit to face 3 whose notification was refused, reported by the
\* FACE_SWITCH packet, on a window whose newest sample differs from the rest.
C18_Witness ==
    /\ res = "processed" /\ s_face = 3 /\ s_session_start = lastp /\ run_from # 3
    /\ Len(out) = 2 /\ out[1].rc < 0 /\ out[2].bytes = FaceSwitchPacket(3)
    /\ \E i \in 1..(Len(recent) - 1) : recent[i] # recent[Len(recent)]

\* C19 as stated: once startup is over exactly one BOOT event has been sent.
C19_OneBootEvent ==
    phase = "run" => boot_sent = 1

\* C19 amended: a munin_imu_init that found the device ready hands exactly
\* one BOOT packet to the transport, with seconds 0 and the initial accepted
\* face as payload; an init that found the device missing or not ready sends
\* none; no BOOT packet is sent by any later tick or callback.
C19_OneBootEventIfDeviceReady ==
    /\ phase = "boot" => boot_sent = 0
    /\ phase = "run" => boot_sent = (IF init_rc.imu = -1 THEN 0 ELSE 1)
    /\ InitSeeded =>
          /\ Len(out) = 1 /\ out[1].ch = "tx"
          /\ out[1].bytes = <<MUNIN_EVENT_BOOT, 0, 0, 0, 0, s_face>>
    /\ ~InitSeeded => CountIn(out \o ble_out, IsBoot) = 0

\* The BOOT packet of init is still the only one after a commit and four
\* iterations of the loop.
C19_Witness ==
    /\ boot_sent = 1 /\ res = "processed" /\ run_commits >= 1
    /\ clock >= BootMs + 4 * MAIN_SLEEP_MS

\* C20: while a client is connected, exactly one STATE_SYNC packet has been
\* sent since the connected callback accepted it (sync_sent counts the
\* STATE_SYNC packets of the callback and of the ticks after it).
C20_StateSyncOnConnect ==
    ble_connected => sync_sent = 1

\* C21: a commit stands whatever the BLE layer returned for its report (the
\* accepted face is the candidate and session_start the time of the tick),
\* its FACE_SWITCH packet is handed over once, and a tick that commits
\* nothing leaves the accepted face and session_start alone and hands over no
\* face report: a report whose send failed is not sent again.
C21_FailedSendNotRetried ==
    [][(phase = "run" /\ clock' # clock) =>
          /\ CommitStep =>
                /\ s_face' = s_candidate /\ s_session_start' = clock
                /\ CountIn(out', IsFaceSwitch) <= 1
                /\ Cardinality({i \in 1..Len(out') : out'[i].ch = "face"}) = 1
          /\ ~CommitStep =>
                /\ s_face' = s_face /\ s_session_start' = s_session_start
                /\ FaceReports(out') = {}]_vars

\* The tick after a commit to face 3 made with no client connected: the
\* notification and the FACE_SWITCH packet were both refused, the commit
\* stands and nothing is sent.
C21_Witness ==
    /\ res = "processed" /\ s_face = 3 /\ run_commits = 1 /\ run_sw = 1 /\ run_nf = 0
    /\ lastp = s_session_start + MAIN_SLEEP_MS /\ out = <<>>
    /\ ~ble_connected /\ s_conn = "null"

\* A step of a Bluetooth callback: it runs in the stack's thread, between or
\* during iterations of main's loop, and does not advance the loop.
CallbackStep == phase = "run" /\ clock' = clock

\* C22 as stated: no BLE callback has read the settle state (gatt_face is
\* the accepted face a read_face call returned, -1 while there was none).
C22_NoCallbackAccess ==
    gatt_face = -1

\* C22 amended: the BLE callbacks write neither the settle state nor the
\* smoothing window, and the one thing they read of them is the accepted
\* face: read_face returns munin_imu_get_current_face() to a connected peer.
C22_CallbacksOnlyReadAcceptedFace ==
    [][/\ CallbackStep =>
             /\ UNCHANGED <<s_face, s_candidate, s_candidate_since, s_session_start>>
             /\ UNCHANGED <<hist, hist_index, hist_count, last, last_logged>>
             /\ gatt_face' # gatt_face => (ble_connected /\ gatt_face' = s_face)
       /\ ~CallbackStep => gatt_face' = gatt_face]_vars

\* A peer read the accepted face 1 before the commit to face 3 and has not
\* read it since.
C22_Witness ==
    /\ gatt_face = 1 /\ s_face = 3 /\ s_candidate = 3 /\ run_commits = 1
    /\ res = "processed" /\ ble_connected

\* The index of main's colour lookup (main.c 86): colors[(face ? face : 1) - 1].
ColorIndex(face) == (IF face # 0 THEN face ELSE 1) - 1

\* munin_imu_init got past the device checks and seeded the settle state.
Seeded == phase = "run" /\ init_rc.imu # -1

\* C23: the accepted face and the candidate are always in 0..6, and in 1..6
\* once munin_imu_init has seeded them; the index of main's colour lookup is
\* always within the six entries of the table.
C23_FacesInRange ==
    /\ s_face \in 0..6 /\ s_candidate \in 0..6
    /\ Seeded => s_face \in 1..6 /\ s_candidate \in 1..6
    /\ ColorIndex(munin_imu_get_current_face) \in 0..5

\* An ambiguous tick while candidate 3 was pending, after an init that fell
\* back to face 6.
C23_Witness ==
    /\ Seeded /\ res = "processed" /\ detected = 0
    /\ init_rc.imu = -2 /\ s_face = FALLBACK_FACE /\ s_candidate = 3

\* The face of an averaged vector as the specification describes it: the
\* axis of the largest magnitude with its sign, 0 when that magnitude is
\* below the minimum or leads the second by less than the margin.
DominantFace(a) ==
    LET m1 == Largest(Abs(a[1]), Abs(a[2]), Abs(a[3]))
        m2 == SecondLargest(Abs(a[1]), Abs(a[2]), Abs(a[3]))
    IN  IF m1 < IMU_MIN_AXIS_G \/ m1 - m2 < IMU_AXIS_MARGIN_G THEN 0
        ELSE IF Abs(a[1]) = m1 THEN (IF a[1] > 0 THEN 1 ELSE 2)
        ELSE IF Abs(a[2]) = m1 THEN (IF a[2] > 0 THEN 3 ELSE 4)
        ELSE (IF a[3] > 0 THEN 5 ELSE 6)

WindowAverage == imu_get_average(hist, hist_count)

\* C24: the classification of a processed tick is a function of the window
\* average alone, whatever the accepted face, the candidate and the earlier
\* results are; while the average keeps the same dominant axis and sign with
\* the required magnitude and margin, every tick classifies the same face.
C24_ClassifierDependsOnAverageOnly ==
    [][TickStep =>
          /\ detected' = DominantFace(WindowAverage')
          /\ (/\ detected # -1
              /\ DominantFace(WindowAverage) # 0
              /\ DominantFace(WindowAverage') = DominantFace(WindowAverage))
                => detected' = detected]_vars

\* Three ticks in a row classified 3 although the averages differed and the
\* accepted face changed from 1 to 3 on the way.
C24_Witness ==
    /\ res = "processed" /\ detected = 3 /\ lastp - run_start >= FACE_SETTLE_TIME_MS
    /\ run_from = 1 /\ s_face = 3 /\ run_commits = 1
    /\ \E i \in 1..(Len(recent) - 1) : recent[i] # recent[Len(recent)]

\* A processed tick that classified the accepted face (a face: the ambiguous
\* classification 0 is the case of C5 and changes nothing).
StableStep == TickStep /\ detected' # 0 /\ detected' = s_face

\* C25: a tick that classifies the accepted face makes the candidate the
\* accepted face and candidate_since the time of the tick, leaves the
\* accepted face and session_start as they were and emits no face report.
C25_StableTickCancelsCandidate ==
    [][StableStep =>
          /\ s_candidate' = s_face /\ s_candidate_since' = clock
          /\ s_face' = s_face /\ s_session_start' = s_session_start
          /\ FaceReports(out') = {}]_vars

\* The accepted face classified right after a tick that had classified
\* another face: the pending candidate is gone.
C25_Witness ==
    /\ res = "processed" /\ detected = s_face /\ alt_len >= 2
    /\ s_candidate = s_face /\ s_candidate_since = lastp /\ s_session_start < lastp

\* C26: munin_imu_update reports a commit by the face notification or by the
\* FACE_SWITCH packet, never by both: the packet is handed over only after a
\* notification that returned < 0, so that over a run of ticks the accepted
\* notifications and the packets together number the commits.  (What
\* munin_ble_update notifies after a subscription is not a report of the
\* commit; C30 looks at it.)
C26_NotificationOrPacket ==
    /\ CountIn(out, IsFaceNotified) + CountIn(out, IsFaceSwitch) <= 1
    /\ \A i \in 1..Len(out) :
          IsFaceSwitch(out[i]) => (i = 2 /\ out[1].ch = "face" /\ out[1].rc < 0)
    /\ res = "processed" => run_sw + run_nf = run_commits

\* A commit to face 3 reported by an accepted notification alone.
C26_Witness ==
    /\ res = "processed" /\ s_face = 3 /\ s_session_start = lastp
    /\ out = <<[ch |-> "face", bytes |-> <<3>>, rc |-> 0]>>
    /\ run_nf = 1 /\ run_sw = 0

\* C27: after a commit that munin_imu_update reported by the fallback
\* FACE_SWITCH packet, that packet is what the device holds for a client:
\* tx_value, the buffer read_tx returns to whoever connects later, contains
\* the packet with seconds 0 and the newly accepted face.
C27_FallbackKeptForLaterClient ==
    (res = "processed" /\ CountIn(out, IsFaceSwitch) = 1) =>
        SubSeq(tx_value, 1, MUNIN_PACKET_SIZE) = FaceSwitchPacket(s_face)

\* A processed tick that classified the pending candidate, a face other
\* than the accepted one.
CandidateStep ==
    TickStep /\ detected' # 0 /\ detected' # s_face /\ detected' = s_candidate

\* C28: a tick that classifies the pending candidate X commits it exactly
\* when now - candidate_since >= FACE_SETTLE_TIME_MS (nothing vetoes the
\* commit) and otherwise leaves the accepted face and candidate_since alone;
\* so once every processed tick has classified the same X for the settle
\* time, the accepted face is X.
C28_SettledCandidateCommits ==
    [][/\ CandidateStep =>
             IF clock - s_candidate_since >= FACE_SETTLE_TIME_MS
             THEN s_face' = detected' /\ s_session_start' = clock
             ELSE s_face' = s_face /\ UNCHANGED <<s_candidate, s_candidate_since>>
       /\ (TickStep /\ detected' # 0 /\ lastp' - run_start' >= FACE_SETTLE_TIME_MS)
             => s_face' = detected']_vars

\* Face 3, classified on every tick since it became the candidate, is
\* committed on the tick that completes the settle time.
C28_Witness ==
    /\ res = "processed" /\ detected = 3 /\ s_face = 3 /\ run_from # 3
    /\ lastp - run_start = FACE_SETTLE_TIME_MS /\ s_session_start = lastp
    /\ s_candidate_since = run_start /\ run_commits = 1

\* C29: at every commit now - candidate_since >= FACE_SETTLE_TIME_MS, the
\* committed face was already the candidate when the tick began, recorded
\* after the session in progress had started; so the commit comes at least
\* the settle time after the previous session start, be that the previous
\* commit or munin_imu_init.
C29_CommitsSettleTimeApart ==
    [][CommitStep =>
          /\ clock - s_candidate_since >= FACE_SETTLE_TIME_MS
          /\ s_candidate = s_face' /\ s_candidate_since < clock
          /\ s_candidate_since > s_session_start
          /\ clock - s_session_start >= FACE_SETTLE_TIME_MS
          /\ clock - BootMs >= FACE_SETTLE_TIME_MS
          /\ s_session_start' = clock]_vars

\* A commit back to face 1 from the accepted face 3, itself committed
\* earlier in the run.
C29_Witness ==
    /\ res = "processed" /\ s_face = 1 /\ run_from = 3 /\ s_session_start = lastp
    /\ FaceReports(out) # {} /\ lastp >= BootMs + 2 * FACE_SETTLE_TIME_MS

\* The accepted face notifications among the entries of o.
NotifiedFaces(o) == {o[i].bytes[1] : i \in {j \in 1..Len(o) : IsFaceNotified(o[j])}}

\* C30: a tick that reports a face has accepted a face other than the one
\* accepted before, and reports that new face; and no face is reported twice
\* in a row: the notifications of one iteration of the loop,
\* munin_imu_update's and munin_ble_update's, never carry the same face.
C30_NoRepeatedFaceReport ==
    /\ [][(TickStep /\ FaceReports(out') # {}) =>
             /\ s_face' # s_face
             /\ \A i \in FaceReports(out') :
                   out'[i].bytes[Len(out'[i].bytes)] = s_face']_vars
    /\ [](NotifiedFaces(out) \cap NotifiedFaces(ble_out) = {})

\* ------------------------------------------------------- battery events
\* A step that ran munin_battery_update past its 10 s gate.
BatUpdateStep == clock' # clock /\ bat_res' = "updated"

\* How many packets of kind k a handler handed to the BLE layer.
KindCount(o, k) == Cardinality({i \in 1..Len(o) : o[i].bytes[1] = k})

\* C31: in munin_battery_update, whenever the charging status read from the
\* pin differs from the stored charging state, exactly one transition event
\* is sent: CHARGING_STARTED when charging begins, CHARGING_STOPPED when it
\* ends.
C31_ChargingTransitionEvent ==
    [][(BatUpdateStep /\ chg_pin' # s_chg)
        => /\ KindCount(bat_out', IF chg_pin' THEN MUNIN_EVENT_CHARGING_STARTED
                                              ELSE MUNIN_EVENT_CHARGING_STOPPED) = 1
           /\ KindCount(bat_out', IF chg_pin' THEN MUNIN_EVENT_CHARGING_STOPPED
                                              ELSE MUNIN_EVENT_CHARGING_STARTED) = 0]_vars

\* C32: LOW_BATTERY is a one-shot with hysteresis: an update sends it at most
\* once, only while not charging with the voltage at or below 3200 mV, and
\* after the first one only if an update since the last one saw the voltage
\* above 3280 mV; it carries voltage / 10 as seconds and the percentage as
\* payload.
C32_LowBatteryOneShot ==
    [][BatUpdateStep
        => /\ KindCount(bat_out', MUNIN_EVENT_LOW_BATTERY) <= 1
           /\ KindCount(bat_out', MUNIN_EVENT_LOW_BATTERY) = 1
                => /\ ~s_chg' /\ s_mv' <= LOW_THRESH_MV
                   /\ low_count > 0 => seen_above
                   /\ \A i \in 1..Len(bat_out') :
                        bat_out'[i].bytes[1] = MUNIN_EVENT_LOW_BATTERY
                            => /\ decode(bat_out'[i].bytes).seconds = ToU32(s_mv' \div 10)
                               /\ decode(bat_out'[i].bytes).payload = s_pct']_vars

\* A second LOW_BATTERY has just been sent.
C32_Witness ==
    /\ bat_res = "updated" /\ low_count = 2
    /\ KindCount(bat_out, MUNIN_EVENT_LOW_BATTERY) = 1

\* C33: FULLY_CHARGED is sent at most once per charging episode and is
\* re-armed when charging starts again: an update that finds the device
\* charging at 4170 mV or more leaves the episode with its FULLY_CHARGED
\* sent, and no update sends a second one within the episode.
C33_FullyChargedPerEpisode ==
    /\ []((bat_res = "updated" /\ s_chg /\ s_mv >= FULL_THRESH_MV) => episode_full)
    /\ [][(BatUpdateStep /\ KindCount(bat_out', MUNIN_EVENT_FULLY_CHARGED) > 0)
            => /\ KindCount(bat_out', MUNIN_EVENT_FULLY_CHARGED) = 1
               /\ ~(s_chg /\ episode_full)]_vars

\* ------------------------------------------------------------ LED claims
\* A step that ran munin_led_effects_update.
LedUpdateStep == clock' # clock /\ led_res' \in {"idle", "on", "off", "end"}

\* Neither the SK6812 nor an onboard pin is lit.
LedOff == led_sk = Dark /\ led_gpio = Dark

\* The LED in use shows the colour of face f: the SK6812 its r, g, b, the
\* onboard pins one bit per channel.
LedLit(f) ==
    IF s_led_target = "SK6812"
        THEN led_sk = s_face_colors[f] /\ led_gpio = Dark
        ELSE /\ led_sk = Dark
             /\ led_gpio = <<IF s_face_colors[f][1] > 0 THEN 1 ELSE 0,
                             IF s_face_colors[f][2] > 0 THEN 1 ELSE 0,
                             IF s_face_colors[f][3] > 0 THEN 1 ELSE 0>>

\* C34: after munin_led_face_flash an update lights the face colour while
\* elapsed < 60% of the 2000 ms duration and switches the LED off from then
\* on; the first update with elapsed >= 2000 ms switches it off and clears
\* the active flag; while no flash is active an update changes nothing and
\* the LED is off.
C34_FlashLifecycle ==
    /\ [](s_flash.active = 0 => LedOff)
    /\ [][LedUpdateStep
            => LET elapsed == clock' - s_flash.start_ms
               IN  /\ s_flash.active = 0
                        => UNCHANGED <<s_flash, led_sk, led_gpio>>
                   /\ (s_flash.active = 1 /\ elapsed >= FLASH_TOTAL_MS)
                        => s_flash'.active = 0 /\ LedOff'
                   /\ (s_flash.active = 1 /\ elapsed < (FLASH_TOTAL_MS * 6) \div 10)
                        => s_flash'.active = 1 /\ LedLit(s_flash.face)'
                   /\ (s_flash.active = 1 /\ elapsed >= (FLASH_TOTAL_MS * 6) \div 10
                                          /\ elapsed < FLASH_TOTAL_MS)
                        => s_flash'.active = 1 /\ LedOff']_vars

\* A flash of face 3 has been ended by the first update past its duration.
C34_Witness ==
    /\ led_res = "end" /\ s_flash.active = 0 /\ s_flash.face = 3
    /\ clock - s_flash.start_ms > FLASH_TOTAL_MS

\* C35: a write to the LED characteristic is applied only when offset = 0,
\* length = 4 and the face byte is in 1..6: then that face's colour becomes
\* the written r, g, b and the other five are unchanged; any other write
\* returns invalid offset, invalid length or value not allowed and leaves
\* all six colours unchanged.
C35_LedWriteValidated ==
    [][wr_n' # wr_n
        => IF wr'.offset = 0 /\ Len(wr'.buf) = LED_WRITE_LEN /\ wr'.buf[1] \in 1..6
           THEN /\ wr'.rc = LED_WRITE_LEN
                /\ s_face_colors'[wr'.buf[1]] = <<wr'.buf[2], wr'.buf[3], wr'.buf[4]>>
                /\ \A f \in (1..6) \ {wr'.buf[1]} : s_face_colors'[f] = s_face_colors[f]
           ELSE /\ s_face_colors' = s_face_colors
                /\ wr'.rc = IF wr'.offset # 0 THEN ERR_INVALID_OFFSET
                            ELSE IF Len(wr'.buf) # LED_WRITE_LEN
                                 THEN ERR_INVALID_ATTRIBUTE_LEN
                            ELSE ERR_VALUE_NOT_ALLOWED]_vars

\* A write of face 3 was applied and a later write was rejected.
C35_Witness ==
    /\ wr_n = 2 /\ wr.rc = ERR_VALUE_NOT_ALLOWED
    /\ s_face_colors[3] = <<9, 8, 7>>

\* --------------------------------------------------- initial face claims
\* A step that ran one iteration of main's loop.
LoopStep == phase = "run" /\ clock' # clock

\* C36: every time a client enables face notifications while connected, the
\* current face is notified to it once: each munin_ble_update that finds the
\* enablement not yet served notifies the current face, and once one has
\* succeeded no further initial-face notification is sent for that
\* enablement.
C36_InitialFacePerEnablement ==
    [][/\ (LoopStep /\ ble_connected /\ face_notif_enabled
                    /\ enable_served = "pending" /\ s_face' > 0)
            => \E rc \in NotifyRcs :
                  ble_out' = <<[ch |-> "face", bytes |-> <<s_face'>>, rc |-> rc]>>
       /\ (LoopStep /\ enable_served = "served") => ble_out' = <<>>]_vars

\* ------------------------------------------------------- link use claims
\* C37: with the connected and disconnected callbacks running on the
\* Bluetooth thread concurrently with the main loop, munin_ble_send_data and
\* munin_ble_notify_face never pass a released or NULL connection to
\* bt_gatt_notify, and outside the callbacks ble_connected is true exactly
\* when s_conn is non-NULL.
C37_NotifyOnLiveConnection ==
    /\ notify_conn \in {"none", "live"}
    /\ ble_connected <=> s_conn # "null"

\* ---------------------------------------------------- munin_zephyr claims
\* C38: in munin_zephyr's munin_imu_update, while the same face stays
\* stable one ONGOING_LOG is sent every 60 seconds of session time: at most
\* one event per 60-second boundary of a session.
C38_OneLogPerBoundary == z_log_n <= 1

\* ------------------------------------------------------------ BOOT claim
\* C39: the BOOT event is emitted by munin_imu_init, which main runs before
\* munin_ble_init: when it is emitted no client is connected, the send
\* fails, and no BOOT record is ever notified to a peer or left in the
\* buffer a peer can read.
C39_BootNeverNotified ==
    /\ [](phase = "boot" => ~ble_connected /\ s_conn = "null")
    /\ [](\A i \in 1..Len(out) : IsBoot(out[i]) => out[i].rc = -1)
    /\ [](\A i \in 1..Len(ble_out) : ~IsBoot(ble_out[i]))
    /\ [](tx_value[1] # MUNIN_EVENT_BOOT)
    /\ [][CountIn(out', IsBoot) > CountIn(out, IsBoot)
            => phase = "boot" /\ ~ble_connected' /\ s_conn' = "null"]_vars

\* The BOOT packet of init was refused, and the client that connected and
\* subscribed afterwards has been sent nothing of it.
C39_Witness ==
    /\ ble_connected /\ face_notif_enabled /\ boot_sent = 1
    /\ Len(out) = 1 /\ out[1].bytes[1] = MUNIN_EVENT_BOOT /\ out[1].rc = -1
    /\ tx_value = ZeroTx

====
